---- MODULE Spec2Model ----
(***************************************************************************)
(* Model of the cycle-time derivation engine of the performance dashboard: *)
(*   scripts/collect_jira.py  build_status_lookup, compute_phase_durations *)
(*   scripts/aggregate.py     compute_percentile_stats, _compute_hour_stats*)
(*   scripts/main.py          the remap step                               *)
(*                                                                         *)
(* Timestamps are whole hours, so (b - a).total_seconds() / 3600 is the    *)
(* integer b - a.  A Python dict is a function whose DOMAIN is its key     *)
(* set; a dict whose insertion order matters is a sequence of <<key,value>>*)
(* pairs.                                                                  *)
(***************************************************************************)
EXTENDS Integers, Sequences, FiniteSets, TLC

VARIABLES
    \* ---- compute_phase_durations and the remap step of main ----
    status_changes,      \* list of <<timestamp, from_status, to_status>>
    issue_created,       \* issue creation time
    now,                 \* end of accrual (resolved or the run instant)
    status_lookup,       \* status -> phase, as build_status_lookup returns it
    phase_durations,     \* the record's phase_durations dict
    unmapped_collector,  \* [supplied, items]: the optional set argument
    old_lookup,          \* lookup under which old_durations was computed
    old_durations,       \* phase_durations before the remap overwrote it
    pc,                  \* "input" | "done" | "remapped" | "idle"
    \* ---- build_status_lookup ----
    config,              \* the status_mapping part of config.yaml
    project_key,
    lookup_result,       \* [raised, value]
    lookup_pc,           \* "input" | "done" | "idle"
    \* ---- compute_percentile_stats / _compute_hour_stats ----
    values,              \* the sample (hours)
    stats,               \* the returned dict
    stats_pc,            \* "input" | "days" | "hours" | "idle"
    \* ---- _build_sa_sd_matcher / _is_sa_sd_issue ----
    sa_sd_rules,         \* the sa_sd_rules part of config.yaml
    team_id,             \* the team the matcher is built for, or None
    sa_issue,            \* [issue_type, summary] of the issue classified
    sa_matcher,          \* [types, patterns] as _build_sa_sd_matcher returns
    sa_result,           \* what _is_sa_sd_issue returned
    sa_pc,               \* "input" | "built" | "done" | "idle"
    \* ---- _find_bottleneck_issues ----
    bn_issues,           \* the team's issues (list of IssueMetrics)
    bn_phase,            \* bottleneck_phase
    bn_base_url,         \* jira_base_url
    bn_limit,            \* limit
    bn_result,           \* the returned list of dicts
    bn_pc,               \* "input" | "done" | "idle"
    \* ---- aggregate ----
    agg_config,          \* config.yaml as aggregate reads it
    jira_data,           \* list of IssueMetrics
    github_data,         \* [given, items]: Optional list of PRMetrics
    jenkins_data,        \* [given, items]: Optional list of BuildResult
    clock_ticks,         \* the reads of the clock before which a day passes
    report,              \* the returned dashboard dict
    agg_pc,              \* "input" | "done" | "idle"
    \* ---- one call of a helper of aggregate ----
    call_args,           \* [fn, ...]: the function called and its arguments
    call_result,         \* what it returned
    call_pc,             \* "input" | "done" | "idle"
    \* ---- collect_jenkins_builds ----
    jk_config,           \* [enabled, base_url, credentials, jobs]
    jk_responses,        \* per job: [failed, builds], what the server answers
    jk_index,            \* jobs the loop has gone through
    jk_fetches,          \* calls of _fetch_builds_for_job so far
    jk_results,          \* results
    jk_pc,               \* "input" | "loop" | "returned" | "idle"
    \* ---- main: the issue cache ----
    main_config,         \* [status_mapping, lookback_days] of config.yaml
    force_jira,          \* FORCE_FULL_REFRESH / FORCE_JIRA_REFRESH
    cache_file,          \* data/cache/issues.json as the run finds it
    jira_feed,           \* the issues the Jira search of this run returns
    run_now,             \* now
    updated_issues,      \* the IssueMetrics collect_jira returned
    cache,               \* cache
    remapped,            \* remapped
    saved_cache,         \* [written, entries]: what save_issues_cache wrote
    main_pc              \* "start" | "collected" | "remapped" | "saved" | "idle"

phase_vars  == <<status_changes, issue_created, now, status_lookup,
                 phase_durations, unmapped_collector, old_lookup,
                 old_durations, pc>>
lookup_vars == <<config, project_key, lookup_result, lookup_pc>>
stats_vars  == <<values, stats, stats_pc>>
sasd_vars   == <<sa_sd_rules, team_id, sa_issue, sa_matcher, sa_result, sa_pc>>
bottleneck_vars == <<bn_issues, bn_phase, bn_base_url, bn_limit, bn_result, bn_pc>>
agg_vars    == <<agg_config, jira_data, github_data, jenkins_data,
                 clock_ticks, report, agg_pc>>
rules_vars  == <<sasd_vars, bottleneck_vars, agg_vars>>
call_vars   == <<call_args, call_result, call_pc>>
jenkins_vars == <<jk_config, jk_responses, jk_index, jk_fetches, jk_results, jk_pc>>
main_vars   == <<main_config, force_jira, cache_file, jira_feed, run_now,
                 updated_issues, cache, remapped, saved_cache, main_pc>>
run_vars    == <<call_vars, jenkins_vars, main_vars>>
vars        == <<phase_vars, lookup_vars, stats_vars, rules_vars, run_vars>>

-----------------------------------------------------------------------------
(* Bounds of the model *)

MaxEvents == 2      \* status-change events per issue
MaxTime   == 3      \* event timestamps range over 1..MaxTime (hours)
MaxSample == 3      \* values per percentile sample

-----------------------------------------------------------------------------
(* Python values *)

None == "<None>"

\* Python truthiness of an Optional[str]
Truthy(x) == x # None /\ x # ""

EmptyDict == [k \in {} |-> 0]

\* d.get(k, default)
DictGet(d, k, default) == IF k \in DOMAIN d THEN d[k] ELSE default

\* d[k] = v
DictSet(d, k, v) == [x \in (DOMAIN d) \cup {k} |-> IF x = k THEN v ELSE d[x]]

RECURSIVE SetSum(_, _)
\* sum of f[x] over the finite set S
SetSum(S, f) ==
    IF S = {} THEN 0
    ELSE LET x == CHOOSE y \in S : TRUE IN f[x] + SetSum(S \ {x}, f)

\* sum(d.values())
DictSum(d) == SetSum(DOMAIN d, d)

-----------------------------------------------------------------------------
(* collect_jira.py: build_status_lookup                                    *)
(*                                                                         *)
(* config["status_mapping"] is [default, overrides]:                       *)
(*   default    list of <<phase, list of status labels>> (dict order)      *)
(*   overrides  [kind, entries]; kind "missing" (no key), "null" (None) or *)
(*              "dict"; entries: project -> [kind, items], kind "null" or  *)
(*              "dict", items a list of <<phase, list of status labels>>   *)

NoEntries == [p \in {} |-> [kind |-> "dict", items |-> <<>>]]

\* the keys of a dict held as a list of pairs
Keys(items) == {items[i][1] : i \in 1..Len(items)}

RECURSIVE AssignAll(_, _, _)
\* for status in statuses: lookup[status] = phase
AssignAll(lookup, statuses, phase) ==
    IF statuses = <<>> THEN lookup
    ELSE AssignAll(DictSet(lookup, Head(statuses), phase), Tail(statuses), phase)

RECURSIVE DefaultLoopMerging(_, _, _)
\* a bug DefaultLoop could have: the default labels of an overridden phase stay
DefaultLoopMerging(lookup, items, override_items) ==
    IF items = <<>> THEN lookup
    ELSE DefaultLoopMerging(AssignAll(lookup, Head(items)[2], Head(items)[1]),
                            Tail(items), override_items)

RECURSIVE DefaultLoop(_, _, _)
\* for phase, statuses in default_mapping.items(): skip a phase the override names
DefaultLoop(lookup, items, override_items) ==
    IF items = <<>> THEN lookup
    ELSE LET phase    == Head(items)[1]
             statuses == Head(items)[2]
         IN  DefaultLoop(IF phase \in Keys(override_items)
                         THEN lookup
                         ELSE AssignAll(lookup, statuses, phase),
                         Tail(items), override_items)

RECURSIVE OverrideLoop(_, _)
\* for phase, statuses in project_override.items(): lookup[status] = phase
OverrideLoop(lookup, items) ==
    IF items = <<>> THEN lookup
    ELSE OverrideLoop(AssignAll(lookup, Head(items)[2], Head(items)[1]), Tail(items))

\* status_mapping.get("overrides") or {}
OverridesOrEmpty(cfg) ==
    IF cfg.overrides.kind = "dict" THEN cfg.overrides.entries ELSE NoEntries

\* overrides.get(project_key, {})
ProjectOverride(overrides, project) ==
    IF project \in DOMAIN overrides
    THEN overrides[project]
    ELSE [kind |-> "dict", items |-> <<>>]

\* build_status_lookup: [raised, value]; a None project override is neither
\* a container (`phase in None`) nor has it .items()
BuildStatusLookup(cfg, project) ==
    LET default_mapping  == cfg.default
        overrides        == OverridesOrEmpty(cfg)
        project_override == ProjectOverride(overrides, project)
    IN  IF project_override.kind = "null"
        THEN [raised |-> IF default_mapping # <<>> THEN "TypeError" ELSE "AttributeError",
              value  |-> EmptyDict]
        ELSE [raised |-> "no",
              value  |-> OverrideLoop(
                             DefaultLoop(EmptyDict, default_mapping, project_override.items),
                             project_override.items)]

-----------------------------------------------------------------------------
(* collect_jira.py: compute_phase_durations *)

\* status_lookup.get(status)
LookupGet(lookup, status) == IF status \in DOMAIN lookup THEN lookup[status] ELSE None

RECURSIVE InsertByTime(_, _)
\* place e behind every element whose timestamp is <= e's (a stable insert)
InsertByTime(sorted, e) ==
    IF sorted = <<>> THEN <<e>>
    ELSE IF Head(sorted)[1] <= e[1]
         THEN <<Head(sorted)>> \o InsertByTime(Tail(sorted), e)
         ELSE <<e>> \o sorted

RECURSIVE SortByTime(_)
\* sorted(status_changes, key=lambda x: x[0]): stable, ties keep the caller's order
SortByTime(changes) ==
    IF changes = <<>> THEN <<>>
    ELSE InsertByTime(SortByTime(SubSeq(changes, 1, Len(changes) - 1)),
                      changes[Len(changes)])

\* a bug AddHours could have: the latest visit overwrites the earlier ones
AddHoursOverwrite(durations, phase, hours) == DictSet(durations, phase, hours)

\* phase_durations[phase] = phase_durations.get(phase, 0.0) + duration_hours
AddHours(durations, phase, hours) ==
    DictSet(durations, phase, DictGet(durations, phase, 0) + hours)

\* unmapped_collector.add(status) when a collector was supplied (else a log line)
CollectorAdd(collector, status) ==
    IF collector.supplied
    THEN [collector EXCEPT !.items = @ \cup {status}]
    ELSE collector

\* a bug AddUnmapped could have: the status is reported, its time is dropped
AddUnmappedReportOnly(st, status, hours) ==
    [st EXCEPT !.collector = CollectorAdd(@, status)]

\* the unmapped branch: report the raw status, add the hours to "unmapped"
AddUnmapped(st, status, hours) ==
    [durations |-> AddHours(st.durations, "unmapped", hours),
     collector |-> CollectorAdd(st.collector, status)]

\* a bug InitialInterval could have: the time before the first change is lost
InitialIntervalSkipped(st, sorted, lookup, created) == st

\* the interval from issue_created to the first change, under first_from
InitialInterval(st, sorted, lookup, created) ==
    LET first_change_time == sorted[1][1]
        first_from        == sorted[1][2]
        initial_phase     == LookupGet(lookup, first_from)
        duration_hours    == first_change_time - created
    IN  IF Truthy(initial_phase)
        THEN IF duration_hours > 0
             THEN [st EXCEPT !.durations = AddHours(@, initial_phase, duration_hours)]
             ELSE st
        ELSE IF Truthy(first_from)
             THEN IF duration_hours > 0
                  THEN AddUnmapped(st, first_from, duration_hours)
                  ELSE st
             ELSE st

\* a bug LoopBody could have: only a negative interval is skipped, one of
\* zero length is recorded
LoopBodyZeroRecorded(st, sorted, i, lookup, end) ==
    LET change_time    == sorted[i][1]
        to_status      == sorted[i][3]
        end_time       == IF i + 1 <= Len(sorted) THEN sorted[i + 1][1] ELSE end
        duration_hours == end_time - change_time
        phase          == LookupGet(lookup, to_status)
    IN  IF duration_hours < 0 THEN st
        ELSE IF Truthy(phase)
             THEN [st EXCEPT !.durations = AddHours(@, phase, duration_hours)]
             ELSE IF Truthy(to_status)
                  THEN AddUnmapped(st, to_status, duration_hours)
                  ELSE st

\* one iteration of the loop over sorted_changes
LoopBody(st, sorted, i, lookup, end) ==
    LET change_time    == sorted[i][1]
        to_status      == sorted[i][3]
        end_time       == IF i + 1 <= Len(sorted) THEN sorted[i + 1][1] ELSE end
        duration_hours == end_time - change_time
        phase          == LookupGet(lookup, to_status)
    IN  IF duration_hours <= 0 THEN st
        ELSE IF Truthy(phase)
             THEN [st EXCEPT !.durations = AddHours(@, phase, duration_hours)]
             ELSE IF Truthy(to_status)
                  THEN AddUnmapped(st, to_status, duration_hours)
                  ELSE st

RECURSIVE LoopFrom(_, _, _, _, _)
\* for i, (...) in enumerate(sorted_changes), from index i on
LoopFrom(st, sorted, i, lookup, end) ==
    IF i > Len(sorted) THEN st
    ELSE LoopFrom(LoopBody(st, sorted, i, lookup, end), sorted, i + 1, lookup, end)

\* compute_phase_durations: the returned dict and the collector as it leaves it
ComputePhaseDurations(changes, lookup, created, end, collector) ==
    LET sorted_changes == SortByTime(changes)
        st0 == [durations |-> EmptyDict, collector |-> collector]
    IN  IF sorted_changes = <<>> THEN st0
        ELSE LoopFrom(InitialInterval(st0, sorted_changes, lookup, created),
                      sorted_changes, 1, lookup, end)

-----------------------------------------------------------------------------
(* aggregate.py: compute_percentile_stats and _compute_hour_stats          *)
(*                                                                         *)
(* Samples are whole hours.  A percentile is carried as hundredths of an   *)
(* hour, which holds sorted[lower] + fraction * (...) exactly for p in     *)
(* {50, 85}.  The returned p50/p85 are integers in the unit of the last    *)
(* kept decimal: hundredths of a day for round(x / 24, 2), tenths of an    *)
(* hour for round(x, 1).  Arithmetic is exact; the doubles of the code     *)
(* differ from it only where a value falls on a rounding tie that is not a *)
(* binary fraction.                                                        *)

RECURSIVE InsertByValue(_, _)
InsertByValue(sorted, v) ==
    IF sorted = <<>> THEN <<v>>
    ELSE IF Head(sorted) <= v
         THEN <<Head(sorted)>> \o InsertByValue(Tail(sorted), v)
         ELSE <<v>> \o sorted

\* a bug SortValues could have: the sample is used in the order given
SortValuesMissing(vals) == vals

RECURSIVE SortValues(_)
\* sorted(values)
SortValues(vals) ==
    IF vals = <<>> THEN <<>>
    ELSE InsertByValue(SortValues(SubSeq(vals, 1, Len(vals) - 1)), vals[Len(vals)])

\* round(num / den) for num >= 0, den > 0: nearest integer, ties to even
RoundHalfEven(num, den) ==
    LET q == num \div den
        r == num % den
    IN  IF 2 * r < den THEN q
        ELSE IF 2 * r > den THEN q + 1
        ELSE IF q % 2 = 0 THEN q ELSE q + 1

\* a bug Percentile could have: the nearest rank instead of an interpolation
PercentileNearestRank(sorted_values, p) ==
    100 * sorted_values[RoundHalfEven(p * (Len(sorted_values) - 1), 100) + 1]

\* the nested percentile(p), in hundredths of an hour; sorted_values is
\* 0-based in the code, 1-based here
Percentile(sorted_values, p) ==
    LET n        == Len(sorted_values)
        index100 == p * (n - 1)              \* 100 * index
        lower    == index100 \div 100        \* int(index)
        upper    == lower + 1
        fraction == index100 - 100 * lower   \* 100 * (index - lower)
    IN  IF n = 1 THEN 100 * sorted_values[1]
        ELSE IF upper >= n THEN 100 * sorted_values[lower + 1]
        ELSE 100 * sorted_values[lower + 1]
             + fraction * (sorted_values[upper + 1] - sorted_values[lower + 1])

\* compute_percentile_stats: p50/p85 in hundredths of a day
ComputePercentileStats(vals) ==
    IF vals = <<>> THEN [p50 |-> 0, p85 |-> 0, count |-> 0]
    ELSE LET sorted_values == SortValues(vals)
         IN  [p50   |-> RoundHalfEven(Percentile(sorted_values, 50), 24),
              p85   |-> RoundHalfEven(Percentile(sorted_values, 85), 24),
              count |-> Len(sorted_values)]

\* _compute_hour_stats: p50/p85 in tenths of an hour
ComputeHourStats(vals) ==
    IF vals = <<>> THEN [p50 |-> 0, p85 |-> 0, count |-> 0]
    ELSE LET sorted_values == SortValues(vals)
         IN  [p50   |-> RoundHalfEven(Percentile(sorted_values, 50), 10),
              p85   |-> RoundHalfEven(Percentile(sorted_values, 85), 10),
              count |-> Len(sorted_values)]

-----------------------------------------------------------------------------
(* Inputs *)

\* config.yaml's default status mapping (the three phases the events below use)
DefaultMapping ==
    << <<"backlog",  <<"To Do">> >>,
       <<"planning", <<"Analysis", "SA/SD">> >>,
       <<"dev",      <<"In Progress">> >> >>

NoOverrides == [kind |-> "missing", entries |-> NoEntries]

BaseConfig == [default |-> DefaultMapping, overrides |-> NoOverrides]

\* statuses a changelog item carries: two the base config maps, one it does
\* not know, and the empty string (a missing fromString/toString)
Statuses == {"To Do", "In Progress", "Blocked", ""}

\* labels an operator may add to the mapping later, and the phases they go to
NewLabels == {"Blocked"}
NewLabelPhases == {"dev", "qa"}

CreatedTimes == {1}
EventTimes   == 1..MaxTime
EndTimes     == (MaxTime - 1)..(MaxTime + 1)

\* an issue's history: n status changes at non-decreasing times
Steps(n) ==
    {s \in [1..n -> EventTimes \X Statuses] :
        \A i \in 1..(n - 1) : s[i][1] <= s[i + 1][1]}

\* the changelog of that history: each change leaves the status the previous
\* one entered
ChainEvents(initial, steps) ==
    [i \in 1..Len(steps) |->
        <<steps[i][1], IF i = 1 THEN initial ELSE steps[i - 1][2], steps[i][2]>>]

\* the orders in which n changelog entries may be handed over
Orders(n) == {f \in [1..n -> 1..n] : \A i, j \in 1..n : f[i] = f[j] => i = j}

\* default_mapping with `label` appended to `phase` (a new phase goes last)
RECURSIVE AppendLabel(_, _, _)
AppendLabel(items, phase, label) ==
    IF items = <<>> THEN << <<phase, <<label>> >> >>
    ELSE IF Head(items)[1] = phase
         THEN << <<phase, Append(Head(items)[2], label)>> >> \o Tail(items)
         ELSE <<Head(items)>> \o AppendLabel(Tail(items), phase, label)

\* the configs load_config may find at the next run: the same file, or one
\* in which a status unknown so far has been added to a phase
ConfigEdits(cfg, lookup) ==
    {cfg} \cup
    {[cfg EXCEPT !.default = AppendLabel(@, ph, l)] :
        l \in NewLabels \ DOMAIN lookup, ph \in NewLabelPhases}

NoCollector == [supplied |-> FALSE, items |-> {}]
NewCollector == [supplied |-> TRUE, items |-> {}]

-----------------------------------------------------------------------------
(* Idle values: each specification leaves the other components untouched *)

PhaseIdle ==
    /\ status_changes = <<>>
    /\ issue_created = 0
    /\ now = 0
    /\ status_lookup = EmptyDict
    /\ phase_durations = EmptyDict
    /\ unmapped_collector = NoCollector
    /\ old_lookup = EmptyDict
    /\ old_durations = EmptyDict
    /\ pc = "idle"

LookupIdle ==
    /\ config = BaseConfig
    /\ project_key = "PROJ-A"
    /\ lookup_result = [raised |-> "no", value |-> EmptyDict]
    /\ lookup_pc = "idle"

StatsIdle ==
    /\ values = <<>>
    /\ stats = [p50 |-> 0, p85 |-> 0, count |-> 0]
    /\ stats_pc = "idle"

SaSdIdle ==
    /\ sa_sd_rules = [kind |-> "missing"]
    /\ team_id = None
    /\ sa_issue = [issue_type |-> "Story", summary |-> <<>>]
    /\ sa_matcher = [types |-> {}, patterns |-> <<>>]
    /\ sa_result = FALSE
    /\ sa_pc = "idle"

BottleneckIdle ==
    /\ bn_issues = <<>>
    /\ bn_phase = "dev"
    /\ bn_base_url = ""
    /\ bn_limit = 0
    /\ bn_result = <<>>
    /\ bn_pc = "idle"

AggIdle ==
    /\ agg_config = [kind |-> "idle"]
    /\ jira_data = <<>>
    /\ github_data = [given |-> FALSE, items |-> <<>>]
    /\ jenkins_data = [given |-> FALSE, items |-> <<>>]
    /\ clock_ticks = <<>>
    /\ report = [kind |-> "idle"]
    /\ agg_pc = "idle"

RulesIdle == SaSdIdle /\ BottleneckIdle /\ AggIdle

CallIdle ==
    /\ call_args = [fn |-> "idle"]
    /\ call_result = <<>>
    /\ call_pc = "idle"

JenkinsIdle ==
    /\ jk_config = [enabled |-> FALSE]
    /\ jk_responses = <<>>
    /\ jk_index = 0
    /\ jk_fetches = 0
    /\ jk_results = <<>>
    /\ jk_pc = "idle"

MainIdle ==
    /\ main_config = [kind |-> "idle"]
    /\ force_jira = FALSE
    /\ cache_file = EmptyDict
    /\ jira_feed = <<>>
    /\ run_now = 0
    /\ updated_issues = <<>>
    /\ cache = EmptyDict
    /\ remapped = 0
    /\ saved_cache = [written |-> FALSE, entries |-> EmptyDict]
    /\ main_pc = "idle"

RunIdle == CallIdle /\ JenkinsIdle /\ MainIdle

-----------------------------------------------------------------------------
(* Phase durations: collection (collect_jira) and the remap step (main) *)

InitPhase ==
    /\ \E n \in 0..MaxEvents, initial \in Statuses :
         \E steps \in Steps(n), f \in Orders(n) :
            status_changes = [i \in 1..n |-> ChainEvents(initial, steps)[f[i]]]
    /\ issue_created \in CreatedTimes
    /\ now \in EndTimes
    /\ status_lookup = EmptyDict
    /\ phase_durations = EmptyDict
    /\ unmapped_collector = NoCollector
    /\ old_lookup = EmptyDict
    /\ old_durations = EmptyDict
    /\ pc = "input"
    /\ config = BaseConfig
    /\ project_key = "PROJ-A"
    /\ lookup_result = [raised |-> "no", value |-> EmptyDict]
    /\ lookup_pc = "idle"
    /\ StatsIdle
    /\ RulesIdle
    /\ RunIdle

\* collect_jira: build the project's lookup, then _process_issue ->
\* parse_changelog -> compute_phase_durations, without a collector
Collect ==
    /\ pc = "input"
    /\ LET lookup == BuildStatusLookup(config, project_key).value
           res    == ComputePhaseDurations(status_changes, lookup,
                                           issue_created, now, NoCollector)
       IN  /\ status_lookup' = lookup
           /\ phase_durations' = res.durations
           /\ unmapped_collector' = res.collector
    /\ pc' = "done"
    /\ UNCHANGED <<status_changes, issue_created, now, old_lookup, old_durations>>
    /\ UNCHANGED <<lookup_vars, stats_vars>>
    /\ UNCHANGED rules_vars
    /\ UNCHANGED run_vars

\* main: lookup = build_status_lookup(config, project), inside the remap loop
RemapLookup(cfg, project) == BuildStatusLookup(cfg, project).value

\* a bug StorePhaseDurations could have: the recomputed dict is merged into
\* the cached one (dict.update), so a key that is gone stays
StoreMerged(cached, computed) ==
    [k \in (DOMAIN cached) \cup (DOMAIN computed) |->
        IF k \in DOMAIN computed THEN computed[k] ELSE cached[k]]

\* main: data["phase_durations"] = compute_phase_durations(...)
StorePhaseDurations(cached, computed) == computed

\* main, a later run: load_config, then for a cache entry with transitions
\* recompute phase_durations under the current lookup, with a collector (the
\* issue is unresolved, so `resolved or now` is now; SpecMain has both)
Remap ==
    /\ pc = "done"
    /\ status_changes # <<>>
    /\ \E cfg \in ConfigEdits(config, status_lookup) :
         LET lookup == RemapLookup(cfg, project_key)
             res    == ComputePhaseDurations(status_changes, lookup,
                                             issue_created, now, NewCollector)
         IN  /\ config' = cfg
             /\ status_lookup' = lookup
             /\ phase_durations' = StorePhaseDurations(phase_durations, res.durations)
             /\ unmapped_collector' = res.collector
    /\ old_lookup' = status_lookup
    /\ old_durations' = phase_durations
    /\ pc' = "remapped"
    /\ UNCHANGED <<status_changes, issue_created, now>>
    /\ UNCHANGED <<project_key, lookup_result, lookup_pc, stats_vars>>
    /\ UNCHANGED rules_vars
    /\ UNCHANGED run_vars

\* main: `if not transitions: continue` - the entry keeps its phase_durations
RemapSkip ==
    /\ pc = "done"
    /\ status_changes = <<>>
    /\ \E cfg \in ConfigEdits(config, status_lookup) : config' = cfg
    /\ old_lookup' = status_lookup
    /\ old_durations' = phase_durations
    /\ pc' = "remapped"
    /\ UNCHANGED <<status_changes, issue_created, now, status_lookup,
                   phase_durations, unmapped_collector>>
    /\ UNCHANGED <<project_key, lookup_result, lookup_pc, stats_vars>>
    /\ UNCHANGED rules_vars
    /\ UNCHANGED run_vars

NextPhase == Collect \/ Remap \/ RemapSkip

SpecPhase == InitPhase /\ [][NextPhase]_vars

-----------------------------------------------------------------------------
(* build_status_lookup on its own *)

\* label lists a project override may give a phase
OverrideLabelLists ==
    { <<>>,
      <<"Requirement Review">>,
      <<"Requirement Review", "Architecture Design">>,
      <<"Analysis", "Requirement Review">>,
      <<"In Progress">>,
      <<"To Do", "Code Review">> }

OverridePhases == {"planning", "dev", "review"}

\* a project's override block: up to two phases, each with its label list
OverrideItems ==
    { <<>> }
    \cup { << <<ph, ls>> >> : ph \in OverridePhases, ls \in OverrideLabelLists }
    \cup { << <<ph1, ls1>>, <<ph2, ls2>> >> :
             ph1 \in {"planning"}, ph2 \in {"dev"},
             ls1 \in OverrideLabelLists, ls2 \in OverrideLabelLists }

\* the `overrides` value of the config
OverrideBlocks ==
    { [kind |-> "missing", entries |-> NoEntries],
      [kind |-> "null",    entries |-> NoEntries],
      [kind |-> "dict",    entries |-> NoEntries],
      [kind |-> "dict",
       entries |-> [p \in {"PROJ-SPECIAL"} |-> [kind |-> "null", items |-> <<>>]]] }
    \cup { [kind |-> "dict",
            entries |-> [p \in {"PROJ-SPECIAL"} |-> [kind |-> "dict", items |-> it]]] :
             it \in OverrideItems }

DefaultMappings == {DefaultMapping, <<>>}

ProjectKeys == {"PROJ-A", "PROJ-SPECIAL"}

InitLookup ==
    /\ config \in [default : DefaultMappings, overrides : OverrideBlocks]
    /\ project_key \in ProjectKeys
    /\ lookup_result = [raised |-> "no", value |-> EmptyDict]
    /\ lookup_pc = "input"
    /\ PhaseIdle
    /\ StatsIdle
    /\ RulesIdle
    /\ RunIdle

\* lookup = build_status_lookup(config, project_key)
BuildLookup ==
    /\ lookup_pc = "input"
    /\ lookup_result' = BuildStatusLookup(config, project_key)
    /\ lookup_pc' = "done"
    /\ UNCHANGED <<config, project_key, phase_vars, stats_vars>>
    /\ UNCHANGED rules_vars
    /\ UNCHANGED run_vars

NextLookup == BuildLookup

SpecLookup == InitLookup /\ [][NextLookup]_vars

-----------------------------------------------------------------------------
(* The percentile statistics on their own *)

\* durations (hours) a sample is drawn from; on samples of these values the
\* exact arithmetic above and the doubles of the code give the same results
SampleHours == {2, 24, 48, 72, 100}

Samples == UNION {[1..n -> SampleHours] : n \in 0..MaxSample}

InitStats ==
    /\ values \in Samples
    /\ stats = [p50 |-> 0, p85 |-> 0, count |-> 0]
    /\ stats_pc = "input"
    /\ PhaseIdle
    /\ LookupIdle
    /\ RulesIdle
    /\ RunIdle

\* stats = compute_percentile_stats(values)
CallPercentileStats ==
    /\ stats_pc = "input"
    /\ stats' = ComputePercentileStats(values)
    /\ stats_pc' = "days"
    /\ UNCHANGED <<values, phase_vars, lookup_vars>>
    /\ UNCHANGED rules_vars
    /\ UNCHANGED run_vars

\* stats = _compute_hour_stats(values)
CallHourStats ==
    /\ stats_pc = "input"
    /\ stats' = ComputeHourStats(values)
    /\ stats_pc' = "hours"
    /\ UNCHANGED <<values, phase_vars, lookup_vars>>
    /\ UNCHANGED rules_vars
    /\ UNCHANGED run_vars

NextStats == CallPercentileStats \/ CallHourStats

SpecStats == InitStats /\ [][NextStats]_vars

-----------------------------------------------------------------------------
(* The timeline the events describe, read off the sorted list: interval 0  *)
(* runs from issue_created to the first change under its from_status,      *)
(* interval i from change i to the next change (or to `now`) under its     *)
(* to_status.                                                              *)

SortedInput == SortByTime(status_changes)

IntervalIdx == IF SortedInput = <<>> THEN {} ELSE 0..Len(SortedInput)

IntervalStatus(i) == IF i = 0 THEN SortedInput[1][2] ELSE SortedInput[i][3]

IntervalHours(i) ==
    IF i = 0 THEN SortedInput[1][1] - issue_created
    ELSE (IF i < Len(SortedInput) THEN SortedInput[i + 1][1] ELSE now)
         - SortedInput[i][1]

PositiveIntervals == {i \in IntervalIdx : IntervalHours(i) > 0}

\* total length of the intervals in I
HoursOf(I) == SetSum(I, [i \in IntervalIdx |-> IntervalHours(i)])

\* the phase interval i is attributed to (None when the status has none)
IntervalPhase(i) == LookupGet(status_lookup, IntervalStatus(i))

Finished == pc \in {"done", "remapped"}

LookupPhases == {status_lookup[x] : x \in DOMAIN status_lookup}

NoZeroInterval == \A i \in IntervalIdx : IntervalHours(i) # 0

NoStatusUnmapped ==
    \A k \in 1..Len(status_changes) :
        /\ status_changes[k][2] \in DOMAIN status_lookup
        /\ status_changes[k][3] \in DOMAIN status_lookup

WithinRange ==
    \A k \in 1..Len(status_changes) :
        /\ issue_created <= status_changes[k][1]
        /\ status_changes[k][1] <= now

-----------------------------------------------------------------------------
(* Claims about compute_phase_durations *)

\* C1 (as stated): whenever no interval is zero-length and no status is
\* unmapped, the returned hours add up to end_time - issue_created.
C1_Conservation ==
    (Finished /\ NoZeroInterval /\ NoStatusUnmapped)
        => DictSum(phase_durations) = now - issue_created

\* C1 (amended): for a non-empty event list whose timestamps all lie between
\* issue_created and end_time, with no zero-length interval and no unmapped
\* status, the returned hours add up to end_time - issue_created.
C1_ConservationWithinRange ==
    (Finished /\ status_changes # <<>> /\ WithinRange
              /\ NoZeroInterval /\ NoStatusUnmapped)
        => DictSum(phase_durations) = now - issue_created

C1_Witness ==
    /\ Finished /\ Len(status_changes) = 2 /\ WithinRange
    /\ NoZeroInterval /\ NoStatusUnmapped
    /\ Cardinality(DOMAIN phase_durations) = 2
    /\ now - issue_created = 3

\* C2: for every phase, the returned hours are the sum of the lengths of all
\* positive-length intervals attributed to it (and the phase is absent when
\* there is none): visits add up, the latest never replaces the earlier ones.
C2_AdditiveAcrossVisits ==
    Finished =>
        \A ph \in LookupPhases :
            LET visits == {i \in PositiveIntervals : IntervalPhase(i) = ph}
            IN  /\ DictGet(phase_durations, ph, 0) = HoursOf(visits)
                /\ ph \in DOMAIN phase_durations <=> visits # {}

\* a phase is left and entered again, with time spent on each visit
C2_Witness ==
    /\ Finished
    /\ \E i, j, k \in PositiveIntervals :
         /\ i < j /\ j < k
         /\ Truthy(IntervalPhase(i))
         /\ IntervalPhase(k) = IntervalPhase(i)
         /\ IntervalPhase(j) # IntervalPhase(i)
         /\ phase_durations[IntervalPhase(i)] = IntervalHours(i) + IntervalHours(k)

\* C3 (as stated): handing the same events over in any other order gives the
\* same phase durations.
C3_OrderIndependent ==
    Finished =>
        \A f \in Orders(Len(status_changes)) :
            ComputePhaseDurations(
                [i \in 1..Len(status_changes) |-> status_changes[f[i]]],
                status_lookup, issue_created, now,
                [supplied |-> unmapped_collector.supplied, items |-> {}]
            ).durations = phase_durations

\* the positive-length intervals under a non-empty status the lookup lacks
UnmappedIntervals ==
    {i \in PositiveIntervals :
        IntervalStatus(i) # "" /\ IntervalStatus(i) \notin DOMAIN status_lookup}

\* C4: every positive-length interval under a non-empty status absent from
\* the lookup is counted in the "unmapped" bucket, and its raw status name is
\* in the collector when one was supplied.
C4_UnmappedBucket ==
    Finished =>
        /\ UnmappedIntervals # {} =>
              /\ "unmapped" \in DOMAIN phase_durations
              /\ phase_durations["unmapped"] = HoursOf(UnmappedIntervals)
        /\ unmapped_collector.supplied =>
              {IntervalStatus(i) : i \in UnmappedIntervals}
                  \subseteq unmapped_collector.items

\* unmapped both before the first change and after a later one, collector given
C4_Witness ==
    /\ pc = "remapped"
    /\ unmapped_collector.supplied
    /\ 0 \in UnmappedIntervals
    /\ Cardinality(UnmappedIntervals) = 2
    /\ "Blocked" \in unmapped_collector.items

\* C5: recomputing with a lookup that additionally maps the so far unmapped
\* status S to phase P moves exactly S's time from "unmapped" to P: P grows
\* by it, "unmapped" shrinks by it and S is no longer reported, and every
\* other phase keeps its hours.
C5_RemapMovesUnmappedTime ==
    (pc = "remapped" /\ status_changes # <<>>
        /\ DOMAIN status_lookup # DOMAIN old_lookup) =>
        LET S     == CHOOSE x \in DOMAIN status_lookup : x \notin DOMAIN old_lookup
            P     == status_lookup[S]
            moved == HoursOf({i \in PositiveIntervals : IntervalStatus(i) = S})
        IN  /\ DictGet(phase_durations, P, 0) = DictGet(old_durations, P, 0) + moved
            /\ DictGet(phase_durations, "unmapped", 0)
                   = DictGet(old_durations, "unmapped", 0) - moved
            /\ S \notin unmapped_collector.items
            /\ \A q \in (DOMAIN phase_durations \cup DOMAIN old_durations)
                            \ {P, "unmapped"} :
                   DictGet(phase_durations, q, 0) = DictGet(old_durations, q, 0)

\* the remap found time under "unmapped" and moved it into a phase that
\* already had hours of its own
C5_Witness ==
    /\ pc = "remapped"
    /\ DOMAIN status_lookup # DOMAIN old_lookup
    /\ "unmapped" \in DOMAIN old_durations
    /\ "unmapped" \notin DOMAIN phase_durations
    /\ "dev" \in DOMAIN old_durations
    /\ phase_durations["dev"] = old_durations["dev"] + old_durations["unmapped"]

-----------------------------------------------------------------------------
(* Claims about build_status_lookup *)

\* the set of the elements of a list
Elems(list) == {list[i] : i \in 1..Len(list)}

\* the labels a dict (list of <<phase, labels>>) lists under `phase`
LabelsUnder(items, phase) ==
    UNION {Elems(items[i][2]) : i \in {j \in 1..Len(items) : items[j][1] = phase}}

AllLabels(items) == UNION {Elems(items[i][2]) : i \in 1..Len(items)}

\* the requested project's override block, {} when it has none
RequestedOverride ==
    IF /\ config.overrides.kind = "dict"
       /\ project_key \in DOMAIN config.overrides.entries
       /\ config.overrides.entries[project_key].kind = "dict"
    THEN config.overrides.entries[project_key].items
    ELSE <<>>

\* the default mapping inverted: each label under the last phase listing it
InvertedDefault ==
    [l \in AllLabels(config.default) |->
        LET last == CHOOSE i \in 1..Len(config.default) :
                       /\ l \in Elems(config.default[i][2])
                       /\ \A j \in (i + 1)..Len(config.default) :
                              l \notin Elems(config.default[j][2])
        IN  config.default[last][1]]

LookupBuilt == lookup_pc = "done" /\ lookup_result.raised = "no"

\* C6 (as stated): no default label of a phase the override names maps to
\* that phase (only the override's labels do), and every default label of a
\* phase the override does not name maps to that phase.
C6_ReplaceWholeBucket ==
    LookupBuilt =>
        LET value == lookup_result.value
            ov    == RequestedOverride
        IN  /\ \A ph \in Keys(ov) :
                  /\ \A l \in LabelsUnder(config.default, ph) :
                         DictGet(value, l, None) # ph
                  /\ \A l \in DOMAIN value :
                         value[l] = ph => l \in LabelsUnder(ov, ph)
            /\ \A ph \in Keys(config.default) \ Keys(ov) :
                  \A l \in LabelsUnder(config.default, ph) :
                      DictGet(value, l, None) = ph

\* C6 (amended): the override's lists take precedence.  For a phase the
\* override names, only labels of the override's list map to it, and a
\* default label of it that no override list repeats is absent from the
\* result; for a phase the override does not name, each default label that no
\* override list claims maps to that phase.
C6_OverridePrecedence ==
    LookupBuilt =>
        LET value == lookup_result.value
            ov    == RequestedOverride
        IN  /\ \A ph \in Keys(ov) :
                  /\ \A l \in DOMAIN value :
                         value[l] = ph => l \in LabelsUnder(ov, ph)
                  /\ \A l \in LabelsUnder(config.default, ph) \ AllLabels(ov) :
                         l \notin DOMAIN value
            /\ \A ph \in Keys(config.default) \ Keys(ov) :
                  \A l \in LabelsUnder(config.default, ph) \ AllLabels(ov) :
                      DictGet(value, l, None) = ph
            /\ \A l \in AllLabels(ov) : DictGet(value, l, None) \in Keys(ov)

\* the project overrides `planning`: the default planning labels are gone,
\* the override's are in, the other phases keep theirs
C6_Witness ==
    /\ LookupBuilt
    /\ config.default = DefaultMapping
    /\ Keys(RequestedOverride) = {"planning"}
    /\ DOMAIN lookup_result.value =
           {"To Do", "In Progress", "Requirement Review", "Architecture Design"}
    /\ lookup_result.value["Requirement Review"] = "planning"
    /\ lookup_result.value["In Progress"] = "dev"

\* C7 (as stated): with the `overrides` key missing, the `overrides` block
\* null or the requested project's entry null, the call does not raise and
\* returns the inverted default mapping.
C7_NullOverrideIsNoOverride ==
    (/\ lookup_pc = "done"
     /\ \/ config.overrides.kind \in {"missing", "null"}
        \/ /\ project_key \in DOMAIN config.overrides.entries
           /\ config.overrides.entries[project_key].kind = "null")
        => /\ lookup_result.raised = "no"
           /\ lookup_result.value = InvertedDefault

-----------------------------------------------------------------------------
(* Claims about the percentile statistics *)

\* hours as the function reports days: round(h / 24, 2), in hundredths
ToDays(h) == RoundHalfEven(100 * h, 24)

\* the k-th smallest value of the sample, k counted from 0
KthSmallest(vals, k) ==
    CHOOSE v \in Elems(vals) :
        /\ Cardinality({i \in 1..Len(vals) : vals[i] < v}) <= k
        /\ Cardinality({i \in 1..Len(vals) : vals[i] <= v}) > k

\* the linear-interpolation estimator of percentile p, in hundredths of an hour
LinearEstimate(vals, p) ==
    LET n      == Len(vals)
        idx100 == p * (n - 1)
        fl     == idx100 \div 100
    IN  IF fl + 1 > n - 1
        THEN 100 * KthSmallest(vals, fl)
        ELSE 100 * KthSmallest(vals, fl)
             + (idx100 - 100 * fl) * (KthSmallest(vals, fl + 1) - KthSmallest(vals, fl))

C9_LinearInterpolation ==
    Len(values) >= 2 =>
        /\ stats_pc = "days" =>
              /\ stats.p50 = RoundHalfEven(LinearEstimate(values, 50), 24)
              /\ stats.p85 = RoundHalfEven(LinearEstimate(values, 85), 24)
        /\ stats_pc = "hours" =>
              /\ stats.p50 = RoundHalfEven(LinearEstimate(values, 50), 10)
              /\ stats.p85 = RoundHalfEven(LinearEstimate(values, 85), 10)

\* p50 of <<24, 48>> hours is 36 hours, a value no element of the sample has
C9_Witness ==
    /\ stats_pc = "hours"
    /\ values = <<48, 24>>
    /\ stats.p50 = 360
    /\ stats.p85 = 444

\* C10 (as stated): on an empty sample the result has p50, p75 and p90, all
\* 0.0, and count 0.
C10_EmptySampleZeros ==
    (stats_pc = "days" /\ values = <<>>) =>
        /\ {"p50", "p75", "p90", "count"} \subseteq DOMAIN stats
        /\ stats.p50 = 0
        /\ stats.p75 = 0
        /\ stats.p90 = 0
        /\ stats.count = 0

-----------------------------------------------------------------------------
(* SA/SD rules: aggregate._build_sa_sd_matcher and _is_sa_sd_issue.        *)
(* A summary is a sequence of characters, <<None>> the summary None.  A    *)
(* summary pattern is a literal with or without the anchor ^, which is the *)
(* shape of the configured patterns; a dict of the configuration is a      *)
(* function from its keys.                                                 *)

MaxSummary == 2     \* characters per issue summary

\* set(list)
SetOf(list) == {list[i] : i \in 1..Len(list)}

\* str.lower() of one character, as re.IGNORECASE folds it
Lower(c) == CASE c = "S" -> "s" [] c = "A" -> "a" [] OTHER -> c

\* a bug Compile could have: the flag re.IGNORECASE is left out
CompileCaseSensitive(raw) ==
    [anchored |-> raw.anchored, text |-> raw.text, ignorecase |-> FALSE]

\* re.compile(p, re.IGNORECASE)
Compile(raw) ==
    [anchored |-> raw.anchored, text |-> raw.text, ignorecase |-> TRUE]

\* the pattern matches the text at offset i (0-based)
MatchAt(pat, text, i) ==
    /\ i + Len(pat.text) <= Len(text)
    /\ \A j \in 1..Len(pat.text) :
          IF pat.ignorecase
          THEN Lower(pat.text[j]) = Lower(text[i + j])
          ELSE pat.text[j] = text[i + j]

RECURSIVE SearchFrom(_, _, _)
\* the scan of p.search(text): leftmost offset first, offset 0 only under ^
SearchFrom(pat, text, i) ==
    IF i > Len(text) THEN FALSE
    ELSE IF MatchAt(pat, text, i) THEN TRUE
    ELSE IF pat.anchored THEN FALSE
    ELSE SearchFrom(pat, text, i + 1)

\* p.search(text) is not None
Search(pat, text) == SearchFrom(pat, text, 0)

\* issue.summary or ""
SummaryOrEmpty(summary) == IF summary = <<None>> THEN <<>> ELSE summary

\* source.get(key, [])
ListGet(source, key) == IF key \in DOMAIN source THEN source[key] ELSE <<>>

\* rules.get("overrides", {}).get(team_id) is truthy: the team has an entry
\* and the entry is a dict with at least one key
OverrideIsTruthy(rules, team) ==
    /\ "overrides" \in DOMAIN rules
    /\ team \in DOMAIN rules["overrides"]
    /\ DOMAIN rules["overrides"][team] # {}

\* _build_sa_sd_matcher(config, team_id)
BuildSaSdMatcher(cfg_rules, team) ==
    IF cfg_rules.kind = "missing" \/ DOMAIN cfg_rules.d = {}
    THEN [types |-> {}, patterns |-> <<>>]
    ELSE LET rules  == cfg_rules.d
             source == IF Truthy(team) /\ OverrideIsTruthy(rules, team)
                       THEN rules["overrides"][team]
                       ELSE rules
             raws   == ListGet(source, "summary_patterns")
         IN  [types    |-> SetOf(ListGet(source, "issue_types")),
              patterns |-> [i \in 1..Len(raws) |-> Compile(raws[i])]]

\* _is_sa_sd_issue(issue, issue_types, patterns)
IsSaSdIssue(issue, issue_types, patterns) ==
    IF issue.issue_type \in issue_types THEN TRUE
    ELSE \E i \in 1..Len(patterns) :
            Search(patterns[i], SummaryOrEmpty(issue.summary))

-----------------------------------------------------------------------------
(* SA/SD rules on their own: the matcher is built, then an issue classified *)

\* ^sA and x, as the configuration spells them
PatternSA == [anchored |-> TRUE, text |-> <<"s", "A">>]
PatternX  == [anchored |-> FALSE, text |-> <<"x">>]

SummaryChars == {"S", "a", "x"}

Summaries ==
    {<<None>>} \cup UNION {[1..n -> SummaryChars] : n \in 0..MaxSummary}

IssueTypes == {"Story", "SA/SD", "Analysis"}

\* a dict with the keys that are given (has) and their values
SaSdDict(issue_types, summary_patterns, overrides) ==
    [k \in {x \in {"issue_types", "summary_patterns", "overrides"} :
              \/ x = "issue_types" /\ issue_types.has
              \/ x = "summary_patterns" /\ summary_patterns.has
              \/ x = "overrides" /\ overrides.has} |->
        CASE k = "issue_types" -> issue_types.v
          [] k = "summary_patterns" -> summary_patterns.v
          [] OTHER -> overrides.v]

Absent == [has |-> FALSE, v |-> <<>>]
Given(v) == [has |-> TRUE, v |-> v]

\* the entries a team may have under sa_sd_rules.overrides
OverrideEntries ==
    {SaSdDict(it, sp, Absent) :
        it \in {Absent, Given(<<>>), Given(<<"Analysis">>)},
        sp \in {Absent, Given(<<>>), Given(<<PatternX>>)}}

NoTeamEntries == [t \in {} |-> EmptyDict]

SaSdOverrides ==
    {Absent, Given(NoTeamEntries)}
    \cup {Given([t \in {"team-alpha"} |-> e]) : e \in OverrideEntries}

SaSdRules ==
    {[kind |-> "missing"]}
    \cup {[kind |-> "dict", d |-> SaSdDict(it, sp, ov)] :
            it \in {Absent, Given(<<>>), Given(<<"SA/SD">>)},
            sp \in {Absent, Given(<<>>), Given(<<PatternSA>>),
                    Given(<<PatternSA, PatternX>>)},
            ov \in SaSdOverrides}

TeamIds == {None, "team-alpha", "team-beta"}

InitSaSd ==
    /\ sa_sd_rules \in SaSdRules
    /\ team_id \in TeamIds
    /\ sa_issue \in [issue_type : IssueTypes, summary : Summaries]
    /\ sa_matcher = [types |-> {}, patterns |-> <<>>]
    /\ sa_result = FALSE
    /\ sa_pc = "input"
    /\ PhaseIdle
    /\ LookupIdle
    /\ StatsIdle
    /\ BottleneckIdle
    /\ AggIdle
    /\ RunIdle

\* sa_sd_types, sa_sd_pats = _build_sa_sd_matcher(config, team_id)
BuildMatcher ==
    /\ sa_pc = "input"
    /\ sa_matcher' = BuildSaSdMatcher(sa_sd_rules, team_id)
    /\ sa_pc' = "built"
    /\ UNCHANGED <<sa_sd_rules, team_id, sa_issue, sa_result>>
    /\ UNCHANGED <<phase_vars, lookup_vars, stats_vars, bottleneck_vars, agg_vars>>
    /\ UNCHANGED run_vars

\* _is_sa_sd_issue(issue, sa_sd_types, sa_sd_pats)
Classify ==
    /\ sa_pc = "built"
    /\ sa_result' = IsSaSdIssue(sa_issue, sa_matcher.types, sa_matcher.patterns)
    /\ sa_pc' = "done"
    /\ UNCHANGED <<sa_sd_rules, team_id, sa_issue, sa_matcher>>
    /\ UNCHANGED <<phase_vars, lookup_vars, stats_vars, bottleneck_vars, agg_vars>>
    /\ UNCHANGED run_vars

NextSaSd == BuildMatcher \/ Classify

SpecSaSd == InitSaSd /\ [][NextSaSd]_vars

-----------------------------------------------------------------------------
(* C11, C12: SA/SD classification *)

\* some offset of the text carries the literal, letter case aside
MatchesIgnoringCase(pat, text) ==
    \E i \in 0..Len(text) :
        /\ pat.anchored => i = 0
        /\ i + Len(pat.text) <= Len(text)
        /\ \A j \in 1..Len(pat.text) : Lower(pat.text[j]) = Lower(text[i + j])

SummaryText == IF sa_issue.summary = <<None>> THEN <<>> ELSE sa_issue.summary

\* C11: an issue is classified as SA/SD if and only if its issue_type is in
\* the effective issue-type set or at least one effective summary pattern
\* matches its summary case-insensitively; with an empty type set and no
\* patterns no issue is classified.
C11_ClassifiedIffTypeOrPattern ==
    sa_pc = "done" =>
        /\ sa_result =
             (\/ sa_issue.issue_type \in sa_matcher.types
              \/ \E i \in 1..Len(sa_matcher.patterns) :
                    MatchesIgnoringCase(sa_matcher.patterns[i], SummaryText))
        /\ (sa_matcher.types = {} /\ sa_matcher.patterns = <<>>) => ~sa_result

\* an issue of another type is classified through a pattern whose letters
\* differ in case from the summary's
C11_Witness ==
    /\ sa_pc = "done"
    /\ sa_result
    /\ sa_issue.issue_type \notin sa_matcher.types
    /\ sa_issue.summary = <<"S", "a">>
    /\ Len(sa_matcher.patterns) = 1

\* the team has an entry under sa_sd_rules.overrides
HasOverrideEntry ==
    /\ sa_sd_rules.kind = "dict"
    /\ "overrides" \in DOMAIN sa_sd_rules.d
    /\ team_id \in DOMAIN sa_sd_rules.d["overrides"]

\* the lists of a dict of rules, an absent list being an empty one
ListsOf(source) ==
    [types    |-> SetOf(ListGet(source, "issue_types")),
     patterns |-> ListGet(source, "summary_patterns")]

GlobalLists ==
    IF sa_sd_rules.kind = "dict" THEN ListsOf(sa_sd_rules.d)
    ELSE [types |-> {}, patterns |-> <<>>]

\* the matcher as lists of the configuration: the patterns uncompiled
MatcherLists ==
    [types    |-> sa_matcher.types,
     patterns |-> [i \in 1..Len(sa_matcher.patterns) |->
                     [anchored |-> sa_matcher.patterns[i].anchored,
                      text     |-> sa_matcher.patterns[i].text]]]

\* C12: when sa_sd_rules.overrides contains an entry for a team, the
\* effective issue-type set and pattern list for that team are exactly the
\* override's lists, nothing inherited from the global lists, also when the
\* override's lists are empty; a team with no override entry uses exactly
\* the global lists.
C12_OverrideReplacesGlobal ==
    sa_pc \in {"built", "done"} =>
        MatcherLists =
            IF HasOverrideEntry
            THEN ListsOf(sa_sd_rules.d["overrides"][team_id])
            ELSE GlobalLists

-----------------------------------------------------------------------------
(* Issues as the rollup reads them (collect_jira.IssueMetrics).            *)
(* phase_durations holds hours as multiples of a tenth of an hour, so that *)
(* a stay of a few minutes can be told from none; resolved is a day number *)
(* and NoTime the datetime None.                                           *)

TicksPerHour == 10
NoTime == -1

MaxCandidates == 2   \* issues handed to _find_bottleneck_issues

\* round(hours / 24, 2), in hundredths of a day
DaysOfTicks(ticks) == RoundHalfEven(100 * ticks, 24 * TicksPerHour)

\* issue.phase_durations.get(phase, 0.0)
HoursGet(issue, phase) == DictGet(issue.phase_durations, phase, 0)

\* a bug InsertByHoursDesc could have: the sort is ascending
InsertByHoursAsc(sorted, c) ==
    LET before == {i \in 1..Len(sorted) : sorted[i][1] <= c[1]}
        n      == Cardinality(before)
    IN  SubSeq(sorted, 1, n) \o <<c>> \o SubSeq(sorted, n + 1, Len(sorted))

RECURSIVE InsertByHoursDesc(_, _)
\* one step of candidates.sort(key=lambda x: x[0], reverse=True): the sort is
\* stable, a candidate goes behind those of at least its hours
InsertByHoursDesc(sorted, c) ==
    IF sorted = <<>> THEN <<c>>
    ELSE IF Head(sorted)[1] >= c[1]
         THEN <<Head(sorted)>> \o InsertByHoursDesc(Tail(sorted), c)
         ELSE <<c>> \o sorted

RECURSIVE SortCandidates(_)
SortCandidates(candidates) ==
    IF candidates = <<>> THEN <<>>
    ELSE InsertByHoursDesc(
             SortCandidates(SubSeq(candidates, 1, Len(candidates) - 1)),
             candidates[Len(candidates)])

RECURSIVE Candidates(_, _)
\* the loop that collects (hours, issue) of the resolved issues with time in
\* the phase
Candidates(issues, phase) ==
    IF issues = <<>> THEN <<>>
    ELSE LET issue == Head(issues)
             hours == HoursGet(issue, phase)
             rest  == Candidates(Tail(issues), phase)
         IN  IF issue.resolved = NoTime THEN rest
             ELSE IF hours > 0 THEN <<<<hours, issue>>>> \o rest
             ELSE rest

\* jira_base_url.rstrip("/")
RStripSlash(url) == IF url = "https://jira/" THEN "https://jira" ELSE url

\* the dict appended for one candidate
BottleneckEntry(hours, issue, base_url) ==
    LET is_epic == issue.parent_issue_type = "Epic"
    IN  [key                 |-> issue.key,
         summary             |-> issue.summary,
         parent_key          |-> IF is_epic THEN issue.parent_key ELSE None,
         parent_summary      |-> IF is_epic THEN issue.parent_summary ELSE None,
         phase_duration_days |-> DaysOfTicks(hours),
         url                 |-> <<RStripSlash(base_url), "/browse/", issue.key>>]

\* candidates[:limit], limit >= 0
TakeLimit(candidates, n) ==
    SubSeq(candidates, 1, IF Len(candidates) < n THEN Len(candidates) ELSE n)

\* _find_bottleneck_issues(issues, bottleneck_phase, jira_base_url, limit)
FindBottleneckIssues(issues, phase, base_url, n) ==
    LET top == TakeLimit(SortCandidates(Candidates(issues, phase)), n)
    IN  [i \in 1..Len(top) |-> BottleneckEntry(top[i][1], top[i][2], base_url)]

-----------------------------------------------------------------------------
(* _find_bottleneck_issues on its own *)

\* limit: the default of the signature
DefaultLimit == 10

Limits == {1, 2, DefaultLimit}

\* the parent fields of an issue: none, an Epic, a parent of another type
Parents ==
    {[parent_key |-> None, parent_summary |-> None, parent_issue_type |-> None],
     [parent_key |-> "PROJ-100", parent_summary |-> "Auth Epic",
      parent_issue_type |-> "Epic"],
     [parent_key |-> "PROJ-200", parent_summary |-> "Some Story",
      parent_issue_type |-> "Story"]}

\* phase_durations of the candidates: 24 h and 48 h of dev, 72 h of qa
CandidateDurations ==
    {[ph \in {"dev"} |-> 24 * TicksPerHour],
     [ph \in {"dev"} |-> 48 * TicksPerHour],
     [ph \in {"qa"} |-> 72 * TicksPerHour]}

CandidateKeys == <<"A-1", "A-2", "A-3", "A-4", "A-5">>

\* the i-th issue of the list
CandidateIssue(i, resolved, durations, parent) ==
    [key               |-> CandidateKeys[i],
     summary           |-> <<>>,
     resolved          |-> resolved,
     phase_durations   |-> durations,
     parent_key        |-> parent.parent_key,
     parent_summary    |-> parent.parent_summary,
     parent_issue_type |-> parent.parent_issue_type]

CandidateLists ==
    UNION {
      {[i \in 1..n |-> CandidateIssue(i, r[i], d[i], pa[i])] :
          r \in [1..n -> {NoTime, 99}],
          d \in [1..n -> CandidateDurations],
          pa \in [1..n -> Parents]} :
      n \in 0..MaxCandidates}

InitBottleneck ==
    /\ bn_issues \in CandidateLists
    /\ bn_phase \in {"dev", "qa"}
    /\ bn_base_url \in {"https://jira", "https://jira/"}
    /\ bn_limit \in Limits
    /\ bn_result = <<>>
    /\ bn_pc = "input"
    /\ PhaseIdle
    /\ LookupIdle
    /\ StatsIdle
    /\ SaSdIdle
    /\ AggIdle
    /\ RunIdle

\* bottleneck_issues = _find_bottleneck_issues(issues, phase, base_url, limit)
FindBottleneck ==
    /\ bn_pc = "input"
    /\ bn_result' = FindBottleneckIssues(bn_issues, bn_phase, bn_base_url, bn_limit)
    /\ bn_pc' = "done"
    /\ UNCHANGED <<bn_issues, bn_phase, bn_base_url, bn_limit>>
    /\ UNCHANGED <<phase_vars, lookup_vars, stats_vars, sasd_vars, agg_vars>>
    /\ UNCHANGED run_vars

NextBottleneck == FindBottleneck

SpecBottleneck == InitBottleneck /\ [][NextBottleneck]_vars

-----------------------------------------------------------------------------
(* C18: the bottleneck list *)

\* the issue of the list that carries the key
IssueOfKey(key) == CHOOSE issue \in SetOf(bn_issues) : issue.key = key

\* hours of an issue in the bottleneck phase, 0 when it has none
PhaseTicks(issue) ==
    IF bn_phase \in DOMAIN issue.phase_durations
    THEN issue.phase_durations[bn_phase] ELSE 0

Eligible == {issue \in SetOf(bn_issues) :
                issue.resolved # NoTime /\ PhaseTicks(issue) > 0}

ListedKeys == {bn_result[i].key : i \in 1..Len(bn_result)}

\* C18: _find_bottleneck_issues returns at most limit entries, all of them
\* resolved issues with positive hours in the bottleneck phase, each listed
\* once, ordered by that duration non-increasing, and it is a top-N
\* selection (as many as the limit allows, and no resolved issue left out
\* has a strictly longer duration than a listed one); parent key and
\* summary are reported only when the parent's issue type is exactly "Epic".
C18_TopNBottleneckIssues ==
    bn_pc = "done" =>
        /\ Len(bn_result) <= bn_limit
        /\ Len(bn_result) =
             IF Cardinality(Eligible) < bn_limit
             THEN Cardinality(Eligible) ELSE bn_limit
        /\ Cardinality(ListedKeys) = Len(bn_result)
        /\ \A i \in 1..Len(bn_result) :
             /\ \E issue \in Eligible : issue.key = bn_result[i].key
             /\ bn_result[i].phase_duration_days =
                  RoundHalfEven(100 * PhaseTicks(IssueOfKey(bn_result[i].key)),
                                24 * TicksPerHour)
        /\ \A i, j \in 1..Len(bn_result) :
             i < j => PhaseTicks(IssueOfKey(bn_result[i].key))
                        >= PhaseTicks(IssueOfKey(bn_result[j].key))
        /\ \A left \in Eligible :
             left.key \notin ListedKeys =>
                \A i \in 1..Len(bn_result) :
                    PhaseTicks(left) <= PhaseTicks(IssueOfKey(bn_result[i].key))
        /\ \A i \in 1..Len(bn_result) :
             LET issue == IssueOfKey(bn_result[i].key)
             IN  IF issue.parent_issue_type = "Epic"
                 THEN /\ bn_result[i].parent_key = issue.parent_key
                      /\ bn_result[i].parent_summary = issue.parent_summary
                 ELSE /\ bn_result[i].parent_key = None
                      /\ bn_result[i].parent_summary = None

\* the limit cuts the list, a longer stay comes after a shorter one in the
\* input, and a listed issue has a parent that is no Epic
C18_Witness ==
    /\ bn_pc = "done"
    /\ Len(bn_result) = bn_limit
    /\ Cardinality(Eligible) > bn_limit
    /\ bn_result[1].key = "A-2"
    /\ PhaseTicks(IssueOfKey("A-2")) > PhaseTicks(IssueOfKey("A-1"))
    /\ \E i \in 1..Len(bn_result) :
          IssueOfKey(bn_result[i].key).parent_issue_type = "Story"

-----------------------------------------------------------------------------
(* The rollup: aggregate.aggregate and the functions it calls.             *)
(* Days are whole numbers, so (now - resolved).days is now - resolved.  An *)
(* Optional number is <<>> for None and <<x>> for x, an Optional dict is   *)
(* NoneDict for None.  Every call of datetime.now() is a read of the       *)
(* clock; the reads are numbered in program order (ReadAt) and the clock   *)
(* shows one day more at every read that follows a tick.                   *)

NoNumber == <<>>
Some(x) == <<x>>
NoneDict == [none |-> TRUE]

EXCLUDED_FROM_TOTAL == {"backlog", "done", "unmapped"}

\* datetime.now(timezone.utc) of the run's first read, a day number
RunDay == 100

\* the read of aggregate itself
ReadAggregate == 0

\* the reads made for project number p of team number t, and for the team:
\* site 1, 2 = compute_throughput and the compute_weekly_trend it calls,
\* site 3 = _compute_build_weekly_trend, site 4 = compute_weekly_trend of
\* the trends, site 5 = _compute_weekly_cycle_time_p50
ReadAt(t, p, site) == 100 * t + 10 * p + site
TeamLevel == 9

\* datetime.now(timezone.utc) at a read
Clock(ticks, read) ==
    RunDay + Cardinality({i \in 1..Len(ticks) : ticks[i] <= read})

\* [x for x in list if Test(x)]
Filter(list, Test(_)) == SelectSeq(list, Test)

\* sum of the hours outside backlog/done/unmapped
ActiveHours(issue) ==
    LET d == issue.phase_durations
    IN  SetSum({ph \in DOMAIN d : ph \notin EXCLUDED_FROM_TOTAL /\ d[ph] > 0}, d)

\* compute_percentile_stats on hours held as ticks: hundredths of a day
CycleTimeStats(ticks) ==
    IF ticks = <<>> THEN [p50 |-> 0, p85 |-> 0, count |-> 0]
    ELSE LET sorted_values == SortValues(ticks)
         IN  [p50   |-> RoundHalfEven(Percentile(sorted_values, 50),
                                      24 * TicksPerHour),
              p85   |-> RoundHalfEven(Percentile(sorted_values, 85),
                                      24 * TicksPerHour),
              count |-> Len(sorted_values)]

\* the project a team's key belongs to: the last team that lists it
RECURSIVE ProjectToTeam(_, _)
ProjectToTeam(teams, project) ==
    IF teams = <<>> THEN None
    ELSE LET last == teams[Len(teams)]
         IN  IF project \in SetOf(last.jira_projects) THEN last.id
             ELSE ProjectToTeam(SubSeq(teams, 1, Len(teams) - 1), project)

RECURSIVE Dedupe(_)
\* the keys of a dict filled in list order
Dedupe(list) ==
    IF list = <<>> THEN <<>>
    ELSE LET front == Dedupe(SubSeq(list, 1, Len(list) - 1))
             x     == list[Len(list)]
         IN  IF x \in SetOf(front) THEN front ELSE Append(front, x)

\* a bug GroupByTeamProject could have: an issue goes to every team that
\* lists its project
GroupByTeamProjectEveryTeam(teams, issues, team) ==
    LET projects == Dedupe(team.jira_projects)
    IN  [i \in 1..Len(projects) |->
           <<projects[i],
             Filter(issues, LAMBDA issue : issue.project = projects[i])>>]

\* group_by_team_project(config, issues)[team_id]: the projects of the team
\* in the order of its list, each with its issues in the order given
GroupByTeamProject(teams, issues, team) ==
    LET projects == Dedupe(team.jira_projects)
    IN  [i \in 1..Len(projects) |->
           <<projects[i],
             Filter(issues, LAMBDA issue :
                 /\ issue.project = projects[i]
                 /\ ProjectToTeam(teams, issue.project) = team.id)>>]

\* group_by_team_project(config, issues): {team_id: {project_key: [issues]}}
GroupedDict(teams, issues) ==
    [id \in {teams[t].id : t \in 1..Len(teams)} |->
        LET team    == teams[CHOOSE t \in 1..Len(teams) : teams[t].id = id]
            grouped == GroupByTeamProject(teams, issues, team)
        IN  [k \in {grouped[p][1] : p \in 1..Len(grouped)} |->
                grouped[CHOOSE p \in 1..Len(grouped) : grouped[p][1] = k][2]]]

\* a bug ComputeWeeklyTrend could have: the newest week comes first
ComputeWeeklyTrendNewestFirst(issues, num_weeks, now_read) ==
    [list_index \in 1..num_weeks |->
        Cardinality({i \in 1..Len(issues) :
            /\ issues[i].resolved # NoTime
            /\ LET week_index == (now_read - issues[i].resolved) \div 7
               IN  /\ 0 <= week_index
                   /\ week_index < num_weeks
                   /\ list_index = week_index + 1})]

\* compute_weekly_trend(issues, num_weeks) with its read of the clock
ComputeWeeklyTrend(issues, num_weeks, now_read) ==
    [list_index \in 1..num_weeks |->
        Cardinality({i \in 1..Len(issues) :
            /\ issues[i].resolved # NoTime
            /\ LET week_index == (now_read - issues[i].resolved) \div 7
               IN  /\ 0 <= week_index
                   /\ week_index < num_weeks
                   /\ list_index = num_weeks - week_index})]

\* compute_throughput(issues, recent_days): its own read of the clock and
\* the read of the compute_weekly_trend it calls
ComputeThroughput(issues, recent_days, now_read, trend_read) ==
    LET cutoff == now_read - recent_days
        resolved_issues ==
            Filter(issues, LAMBDA issue :
                issue.resolved # NoTime /\ issue.resolved >= cutoff)
    IN  [completed_issues |-> Len(resolved_issues),
         story_points     |-> NoNumber,
         weekly_trend     |-> ComputeWeeklyTrend(issues, 4, trend_read)]

\* the values of one phase: the resolved issues with time in it
PhaseValues(resolved_issues, phase_id) ==
    LET with == Filter(resolved_issues, LAMBDA issue :
                    /\ phase_id \in DOMAIN issue.phase_durations
                    /\ issue.phase_durations[phase_id] > 0)
    IN  [i \in 1..Len(with) |-> with[i].phase_durations[phase_id]]

\* a bug TotalValues could have: backlog, done and unmapped are counted in
TotalValuesAllPhases(resolved_issues) ==
    LET with == Filter(resolved_issues, LAMBDA issue :
                    DictSum(issue.phase_durations) > 0)
    IN  [i \in 1..Len(with) |-> DictSum(with[i].phase_durations)]

\* total_values: the positive active totals of the resolved issues
TotalValues(resolved_issues) ==
    LET with == Filter(resolved_issues, LAMBDA issue : ActiveHours(issue) > 0)
    IN  [i \in 1..Len(with) |-> ActiveHours(with[i])]

\* a bug ComputeCycleTimeForProject could have: the phases are computed
\* over all the issues, the total over the resolved ones
ComputeCycleTimeUnresolvedPhases(issues, phases) ==
    LET resolved_issues == Filter(issues, LAMBDA issue : issue.resolved # NoTime)
        phase_ids == {phases[i].id : i \in 1..Len(phases)}
    IN  [k \in phase_ids \cup {"total"} |->
            IF k = "total" THEN CycleTimeStats(TotalValues(resolved_issues))
            ELSE CycleTimeStats(PhaseValues(issues, k))]

\* _compute_cycle_time_for_project(issues, phases)
ComputeCycleTimeForProject(issues, phases) ==
    LET resolved_issues == Filter(issues, LAMBDA issue : issue.resolved # NoTime)
        phase_ids == {phases[i].id : i \in 1..Len(phases)}
    IN  [k \in phase_ids \cup {"total"} |->
            IF k = "total" THEN CycleTimeStats(TotalValues(resolved_issues))
            ELSE CycleTimeStats(PhaseValues(resolved_issues, k))]

\* a bug MergeSaSdIntoPlanning could have: the SA/SD samples replace the
\* planning samples of the other issues
MergeSaSdReplacing(cycle_time, normal_issues, sa_sd_hours) ==
    IF sa_sd_hours = <<>> THEN cycle_time
    ELSE DictSet(cycle_time, "planning", CycleTimeStats(sa_sd_hours))

\* a bug MergeSaSdIntoPlanning could have: the SA/SD samples are merged into
\* `total` as well
MergeSaSdIntoTotalToo(cycle_time, normal_issues, sa_sd_hours) ==
    IF sa_sd_hours = <<>> THEN cycle_time
    ELSE LET resolved_issues ==
                 Filter(normal_issues, LAMBDA issue : issue.resolved # NoTime)
         IN  DictSet(DictSet(cycle_time, "planning",
                             CycleTimeStats(PhaseValues(resolved_issues, "planning")
                                            \o sa_sd_hours)),
                     "total",
                     CycleTimeStats(TotalValues(resolved_issues) \o sa_sd_hours))

\* _merge_sa_sd_into_planning(cycle_time, normal_issues, sa_sd_hours)
MergeSaSdIntoPlanning(cycle_time, normal_issues, sa_sd_hours) ==
    IF sa_sd_hours = <<>> THEN cycle_time
    ELSE LET planning_values ==
                 PhaseValues(Filter(normal_issues,
                                    LAMBDA issue : issue.resolved # NoTime),
                             "planning")
         IN  DictSet(cycle_time, "planning",
                     CycleTimeStats(planning_values \o sa_sd_hours))

\* _compute_weekly_cycle_time_p50(issues, num_weeks) with its read
ComputeWeeklyCycleTimeP50(issues, num_weeks, now_read) ==
    [list_index \in 1..num_weeks |->
        LET in_week == Filter(issues, LAMBDA issue :
                /\ issue.resolved # NoTime
                /\ (now_read - issue.resolved) \div 7 = num_weeks - list_index
                /\ ActiveHours(issue) > 0)
            hours_list == [i \in 1..Len(in_week) |-> ActiveHours(in_week[i])]
        IN  IF hours_list # <<>> THEN Some(CycleTimeStats(hours_list).p50)
            ELSE NoNumber]

\* [x - created_at for the merged PRs reviewed], hours
PickupHours(merged) ==
    LET reviewed == Filter(merged, LAMBDA pr : pr.first_review_at # NoTime)
    IN  [i \in 1..Len(reviewed) |->
            reviewed[i].first_review_at - reviewed[i].created_at]

\* a bug ComputePrMetrics could have: no early return without a merged PR
ComputePrMetricsNoGuard(prs) ==
    LET merged == Filter(prs, LAMBDA pr : pr.merged_at # NoTime)
    IN  [total_prs_merged |-> Len(merged),
         pickup_hours     |-> ComputeHourStats(PickupHours(merged)),
         merge_time_hours |-> ComputeHourStats(
             [i \in 1..Len(merged) |-> merged[i].merged_at - merged[i].created_at]),
         large_pr_pct     |-> 0]

\* _compute_pr_metrics(prs, large_pr_threshold); large_pr_pct in tenths of a
\* percent
ComputePrMetrics(prs) ==
    LET merged == Filter(prs, LAMBDA pr : pr.merged_at # NoTime)
        large  == Filter(merged, LAMBDA pr : pr.is_large)
    IN  IF merged = <<>> THEN NoneDict
        ELSE [total_prs_merged |-> Len(merged),
              pickup_hours     |-> ComputeHourStats(PickupHours(merged)),
              merge_time_hours |-> ComputeHourStats(
                  [i \in 1..Len(merged) |->
                      merged[i].merged_at - merged[i].created_at]),
              large_pr_pct     |-> RoundHalfEven(1000 * Len(large), Len(merged))]

\* the team a repo or a job belongs to: the last team that lists it
RECURSIVE OwnerTeam(_, _, _)
OwnerTeam(teams, field, name) ==
    IF teams = <<>> THEN None
    ELSE LET last == teams[Len(teams)]
         IN  IF name \in SetOf(last[field]) THEN last.id
             ELSE OwnerTeam(SubSeq(teams, 1, Len(teams) - 1), field, name)

\* _group_prs_by_team(config, prs)[team_id]
GroupPrsByTeam(teams, prs, team) ==
    Filter(prs, LAMBDA pr : OwnerTeam(teams, "github_repos", pr.repo) = team.id)

\* _group_builds_by_team(config, builds)[team_id]
GroupBuildsByTeam(teams, builds, team) ==
    Filter(builds, LAMBDA b : OwnerTeam(teams, "jenkins_jobs", b.job_name) = team.id)

\* _compute_build_weekly_trend(builds, num_weeks) with its read
ComputeBuildWeeklyTrend(builds, num_weeks, now_read) ==
    [list_index \in 1..num_weeks |->
        Cardinality({i \in 1..Len(builds) :
            (now_read - builds[i].timestamp) \div 7 = num_weeks - list_index})]

\* _compute_build_metrics(builds): success_rate in tenths of a percent,
\* avg_duration_mins in tenths of a minute
\* a bug ComputeBuildMetrics could have: total_builds counts the builds in
\* progress too
ComputeBuildMetricsAllCounted(builds, now_read) ==
    LET completed == Filter(builds, LAMBDA b : b.result # None)
        successes == Filter(completed, LAMBDA b : b.result = "SUCCESS")
        timed     == Filter(completed, LAMBDA b : b.duration_ms > 0)
        total_ms  == SetSum(1..Len(timed), [i \in 1..Len(timed) |-> timed[i].duration_ms])
    IN  IF completed = <<>> THEN NoneDict
        ELSE [success_rate      |-> RoundHalfEven(1000 * Len(successes), Len(completed)),
              avg_duration_mins |-> IF timed # <<>>
                                    THEN RoundHalfEven(10 * total_ms, 60000 * Len(timed))
                                    ELSE 0,
              total_builds      |-> Len(builds),
              weekly_trend      |-> ComputeBuildWeeklyTrend(builds, 4, now_read)]

ComputeBuildMetrics(builds, now_read) ==
    LET completed == Filter(builds, LAMBDA b : b.result # None)
        successes == Filter(completed, LAMBDA b : b.result = "SUCCESS")
        timed     == Filter(completed, LAMBDA b : b.duration_ms > 0)
        total_ms  == SetSum(1..Len(timed), [i \in 1..Len(timed) |-> timed[i].duration_ms])
    IN  IF completed = <<>> THEN NoneDict
        ELSE [success_rate      |-> RoundHalfEven(1000 * Len(successes), Len(completed)),
              avg_duration_mins |-> IF timed # <<>>
                                    THEN RoundHalfEven(10 * total_ms, 60000 * Len(timed))
                                    ELSE 0,
              total_builds      |-> Len(completed),
              weekly_trend      |-> ComputeBuildWeeklyTrend(builds, 4, now_read)]

\* the loop over the phases that finds the bottleneck, from phase i on
RECURSIVE BottleneckLoop(_, _, _, _, _)
BottleneckLoop(phases, cycle_time, i, max_p50, best) ==
    IF i > Len(phases) THEN best
    ELSE LET pid == phases[i].id
         IN  IF pid \in EXCLUDED_FROM_TOTAL
             THEN BottleneckLoop(phases, cycle_time, i + 1, max_p50, best)
             ELSE IF /\ pid \in DOMAIN cycle_time
                     /\ cycle_time[pid].count > 0
                     /\ cycle_time[pid].p50 > max_p50
                  THEN BottleneckLoop(phases, cycle_time, i + 1,
                                      cycle_time[pid].p50, pid)
                  ELSE BottleneckLoop(phases, cycle_time, i + 1, max_p50, best)

\* _get_week_labels(now, num_weeks): the ISO week of now - k weeks, as the
\* number of the week
GetWeekLabels(now_day, num_weeks) ==
    [i \in 1..num_weeks |-> (now_day - 7 * (num_weeks - i)) \div 7]

RECURSIVE Concat(_)
\* the lists of a list, one after the other (list.extend in a loop)
Concat(lists) ==
    IF lists = <<>> THEN <<>> ELSE Head(lists) \o Concat(Tail(lists))

\* _compute_sa_sd_planning_hours(issue)
ComputeSaSdPlanningHours(issue) == ActiveHours(issue)

\* the split of a project's issues into normal issues and SA/SD samples
SplitProject(project_issues, matcher) ==
    LET has_sa_sd == matcher.types # {} \/ matcher.patterns # <<>>
        counted   == Filter(project_issues, LAMBDA issue :
                         /\ IsSaSdIssue(issue, matcher.types, matcher.patterns)
                         /\ issue.resolved # NoTime
                         /\ ComputeSaSdPlanningHours(issue) > 0)
    IN  IF has_sa_sd
        THEN [normal_issues |->
                  Filter(project_issues, LAMBDA issue :
                      ~IsSaSdIssue(issue, matcher.types, matcher.patterns)),
              sa_sd_hours   |-> [i \in 1..Len(counted) |->
                                    ComputeSaSdPlanningHours(counted[i])]]
        ELSE [normal_issues |-> project_issues, sa_sd_hours |-> <<>>]

\* projects_output[project_key] of project number p of team number t
ProjectOutput(split, cfg, ticks, t, p) ==
    [cycle_time |-> MergeSaSdIntoPlanning(
                        ComputeCycleTimeForProject(split.normal_issues, cfg.phases),
                        split.normal_issues, split.sa_sd_hours),
     throughput |-> ComputeThroughput(split.normal_issues, cfg.recent_days,
                                      Clock(ticks, ReadAt(t, p, 1)),
                                      Clock(ticks, ReadAt(t, p, 2))),
     pr_metrics |-> NoneDict]

\* one round of the loop over the teams: teams_output[team_id] and
\* trends_output[team_id] of team number t
TeamOutput(cfg, teams, t, issues, prs, builds, ticks) ==
    LET team     == teams[t]
        grouped  == GroupByTeamProject(teams, issues, team)
        matcher  == BuildSaSdMatcher(cfg.sa_sd_rules, team.id)
        splits   == [p \in 1..Len(grouped) |-> SplitProject(grouped[p][2], matcher)]
        all_team_issues      == Concat([p \in 1..Len(grouped) |->
                                           splits[p].normal_issues])
        all_team_sa_sd_hours == Concat([p \in 1..Len(grouped) |->
                                           splits[p].sa_sd_hours])
        team_cycle_time == MergeSaSdIntoPlanning(
                               ComputeCycleTimeForProject(all_team_issues, cfg.phases),
                               all_team_issues, all_team_sa_sd_hours)
        team_pr_metrics == ComputePrMetrics(GroupPrsByTeam(teams, prs, team))
        bottleneck_phase_id ==
            BottleneckLoop(cfg.phases, team_cycle_time, 1, 0, None)
    IN  [team |->
           [name       |-> team.name,
            projects   |-> [k \in {grouped[p][1] : p \in 1..Len(grouped)} |->
                              LET p == CHOOSE q \in 1..Len(grouped) : grouped[q][1] = k
                              IN  ProjectOutput(splits[p], cfg, ticks, t, p)],
            aggregated |->
              [cycle_time        |-> team_cycle_time,
               throughput        |-> ComputeThroughput(
                                         all_team_issues, cfg.recent_days,
                                         Clock(ticks, ReadAt(t, TeamLevel, 1)),
                                         Clock(ticks, ReadAt(t, TeamLevel, 2))),
               pr_metrics        |-> team_pr_metrics,
               build_metrics     |-> ComputeBuildMetrics(
                                         GroupBuildsByTeam(teams, builds, team),
                                         Clock(ticks, ReadAt(t, TeamLevel, 3))),
               bottleneck_phase  |-> bottleneck_phase_id,
               bottleneck_issues |->
                   IF Truthy(bottleneck_phase_id) /\ cfg.jira_base_url # ""
                   THEN FindBottleneckIssues(all_team_issues, bottleneck_phase_id,
                                             cfg.jira_base_url, DefaultLimit)
                   ELSE <<>>]],
         trend |->
           [weeks           |-> GetWeekLabels(Clock(ticks, ReadAggregate), 4),
            cycle_time_p50  |-> ComputeWeeklyCycleTimeP50(
                                    all_team_issues, 4,
                                    Clock(ticks, ReadAt(t, TeamLevel, 5))),
            throughput      |-> ComputeWeeklyTrend(
                                    all_team_issues, 4,
                                    Clock(ticks, ReadAt(t, TeamLevel, 4))),
            pr_pickup_hours |->
                IF team_pr_metrics # NoneDict /\ team_pr_metrics.pickup_hours.count > 0
                THEN Some(team_pr_metrics.pickup_hours.p50)
                ELSE NoNumber]]

\* the "summary" section
Summary(issues, all_prs) ==
    LET all_merged_prs == Filter(all_prs, LAMBDA pr : pr.merged_at # NoTime)
        all_pickup_hours == PickupHours(all_merged_prs)
        resolved_all == Filter(issues, LAMBDA issue : issue.resolved # NoTime)
        non_zero == TotalValues(resolved_all)
    IN  [total_completed_issues     |-> Len(resolved_all),
         avg_cycle_time_days        |->
             IF non_zero # <<>>
             THEN Some(RoundHalfEven(
                      100 * SetSum(1..Len(non_zero), non_zero),
                      Len(non_zero) * 24 * TicksPerHour))
             ELSE NoNumber,
         avg_cycle_time_prev_period |-> NoNumber,
         total_prs_merged           |->
             IF all_prs # <<>> THEN Some(Len(all_merged_prs)) ELSE NoNumber,
         avg_pr_pickup_hours        |->
             IF all_pickup_hours # <<>>
             THEN Some(ComputeHourStats(all_pickup_hours).p50)
             ELSE NoNumber]

\* aggregate(config, jira_data, github_data, jenkins_data)
AggregateReport(cfg, issues, github, jenkins, ticks) ==
    LET now_day == Clock(ticks, ReadAggregate)
        teams   == IF cfg.teams.has THEN cfg.teams.v ELSE <<>>
        prs     == IF github.given THEN github.items ELSE <<>>
        builds  == IF jenkins.given THEN jenkins.items ELSE <<>>
        ids     == {teams[t].id : t \in 1..Len(teams)}
        \* a team id listed twice keeps the output of its last round
        Round(id) == CHOOSE t \in 1..Len(teams) :
                        /\ teams[t].id = id
                        /\ \A u \in 1..Len(teams) : teams[u].id = id => u <= t
        outputs == [t \in 1..Len(teams) |->
                       TeamOutput(cfg, teams, t, issues, prs, builds, ticks)]
    IN  [generated_at |-> now_day,
         period  |-> [start |-> now_day - cfg.lookback_days, end |-> now_day],
         meta    |-> [phases |-> Filter(cfg.phases, LAMBDA ph :
                                     ph.id \notin {"backlog", "done"})],
         summary |-> Summary(issues, prs),
         teams   |-> [id \in ids |-> outputs[Round(id)].team],
         trends  |-> [id \in ids |-> outputs[Round(id)].trend]]

-----------------------------------------------------------------------------
(* Inputs of the rollup *)

MaxIssues == 2      \* issues in jira_data
MaxTicks  == 1      \* days that pass on the clock while aggregate runs

Phases ==
    <<[id |-> "backlog", label |-> "Backlog"],
      [id |-> "planning", label |-> "SA/SD"],
      [id |-> "dev", label |-> "Development"],
      [id |-> "done", label |-> "Done"]>>

Team(id, name, jira_projects) ==
    [id |-> id, name |-> name, jira_projects |-> jira_projects,
     github_repos |-> IF id = "team-alpha" THEN <<"repo-a">> ELSE <<>>,
     jenkins_jobs |-> IF id = "team-alpha" THEN <<"job-a">> ELSE <<>>]

\* one team with one project, one team with two, two teams with one each
OneProjectTeam == <<Team("team-alpha", "Team Alpha", <<"PROJ-A">>)>>
TwoProjectTeam == <<Team("team-alpha", "Team Alpha", <<"PROJ-A", "PROJ-B">>)>>
TwoTeams ==
    <<Team("team-alpha", "Team Alpha", <<"PROJ-A">>),
      Team("team-beta", "Team Beta", <<"PROJ-B">>)>>

NoSaSdRules == [kind |-> "missing"]

\* issue type SA/SD or a summary that starts with SA, for every team
GlobalSaSdRules ==
    [kind |-> "dict",
     d |-> SaSdDict(Given(<<"SA/SD">>), Given(<<PatternSA>>), Given(NoTeamEntries))]

\* the same, and team-beta with an override that names no type and no pattern
BetaOverrideRules ==
    [kind |-> "dict",
     d |-> SaSdDict(Given(<<"SA/SD">>), Given(<<PatternSA>>),
                    Given([t \in {"team-beta"} |->
                             SaSdDict(Given(<<>>), Absent, Absent)]))]

AggConfig(teams, rules, base_url) ==
    [teams         |-> teams,
     phases        |-> Phases,
     sa_sd_rules   |-> rules,
     jira_base_url |-> base_url,
     lookback_days |-> 90,
     recent_days   |-> 30]

IssueKeys ==
    [project \in {"PROJ-A", "PROJ-B"} |->
        IF project = "PROJ-A"
        THEN <<"PROJ-A-1", "PROJ-A-2", "PROJ-A-3", "PROJ-A-4">>
        ELSE <<"PROJ-B-1", "PROJ-B-2", "PROJ-B-3", "PROJ-B-4">>]

\* a normal story, an issue of type SA/SD, a story whose summary starts
\* with SA
IssueKinds ==
    {[issue_type |-> "Story", summary |-> <<>>],
     [issue_type |-> "SA/SD", summary |-> <<>>],
     [issue_type |-> "Story", summary |-> <<"S", "a">>]}

\* phase_durations: 48 h of planning; backlog and done only; 24 h of dev
\* and 48 h of planning; 48 h of each; six minutes of dev
IssueDurations ==
    {[ph \in {"planning"} |-> 48 * TicksPerHour],
     [ph \in {"backlog", "done"} |-> 72 * TicksPerHour],
     [ph \in {"planning", "dev"} |->
         IF ph = "dev" THEN 24 * TicksPerHour ELSE 48 * TicksPerHour],
     [ph \in {"planning", "dev"} |-> 48 * TicksPerHour],
     [ph \in {"dev"} |-> 1]}

\* the i-th issue of jira_data
Issue(i, project, kind, resolved, durations) ==
    [key               |-> IssueKeys[project][i],
     project           |-> project,
     issue_type        |-> kind.issue_type,
     summary           |-> kind.summary,
     resolved          |-> resolved,
     phase_durations   |-> durations,
     parent_key        |-> None,
     parent_summary    |-> None,
     parent_issue_type |-> None]

IssueLists(max, projects, kinds, resolveds, durations) ==
    UNION {
      {[i \in 1..n |-> Issue(i, pr[i], k[i], r[i], d[i])] :
          pr \in [1..n -> projects], k \in [1..n -> kinds],
          r \in [1..n -> resolveds], d \in [1..n -> durations]} :
      n \in 0..max}

NotGiven == [given |-> FALSE, items |-> <<>>]
GivenList(items) == [given |-> TRUE, items |-> items]

\* PRs of repo-a: reviewed after 8 h and merged after 20 h; merged after
\* 20 h without a review; still open
PullRequests ==
    {[repo |-> "repo-a", jira_keys |-> <<>>, created_at |-> 0,
      first_review_at |-> 8, merged_at |-> 20, is_large |-> FALSE],
     [repo |-> "repo-a", jira_keys |-> <<>>, created_at |-> 0,
      first_review_at |-> NoTime, merged_at |-> 20, is_large |-> TRUE],
     [repo |-> "repo-a", jira_keys |-> <<>>, created_at |-> 0,
      first_review_at |-> NoTime, merged_at |-> NoTime, is_large |-> FALSE]}

\* builds of job-a: a success of two minutes, a failure, one in progress
Builds ==
    {[job_name |-> "job-a", result |-> "SUCCESS", duration_ms |-> 120000,
      timestamp |-> 99],
     [job_name |-> "job-a", result |-> "FAILURE", duration_ms |-> 0,
      timestamp |-> 92],
     [job_name |-> "job-a", result |-> None, duration_ms |-> 0,
      timestamp |-> 99]}

OptionalLists(pool) ==
    {NotGiven, GivenList(<<>>)} \cup {GivenList(<<x>>) : x \in pool}

\* the reads of the clock a run can make, aggregate's own aside
Reads ==
    {ReadAt(t, p, site) : t \in 1..2, p \in 1..2, site \in 1..2}
    \cup {ReadAt(t, TeamLevel, site) : t \in 1..2, site \in 1..5}

\* the runs of the clock: at most MaxTicks days pass, each before some read
ClockRuns ==
    UNION {{ticks \in [1..n -> Reads] :
               \A i, j \in 1..n : i < j => ticks[i] <= ticks[j]} :
           n \in 0..MaxTicks}

-----------------------------------------------------------------------------
(* aggregate: issues of every kind, and the degenerate inputs *)

InitAggregate ==
    /\ \/ /\ agg_config \in
               {AggConfig(Given(teams), rules, "https://jira") :
                   teams \in {TwoProjectTeam, TwoTeams},
                   rules \in {NoSaSdRules, GlobalSaSdRules, BetaOverrideRules}}
          /\ jira_data \in IssueLists(MaxIssues, {"PROJ-A", "PROJ-B"},
                                      IssueKinds, {NoTime, 99}, IssueDurations)
          /\ github_data = NotGiven
          /\ jenkins_data = NotGiven
          /\ clock_ticks = <<>>
       \/ /\ agg_config \in
               {AggConfig(teams, rules, base_url) :
                   teams \in {Absent, Given(OneProjectTeam),
                              Given(TwoProjectTeam), Given(TwoTeams)},
                   rules \in {NoSaSdRules, GlobalSaSdRules},
                   base_url \in {"", "https://jira"}}
          /\ jira_data \in IssueLists(1, {"PROJ-A", "PROJ-B"},
                                      {[issue_type |-> "Story", summary |-> <<>>]},
                                      {NoTime, 99}, IssueDurations)
          /\ github_data \in OptionalLists(PullRequests)
          /\ jenkins_data \in OptionalLists(Builds)
          /\ clock_ticks \in {<<>>, <<ReadAt(1, TeamLevel, 4)>>}
    /\ report = [kind |-> "idle"]
    /\ agg_pc = "input"
    /\ PhaseIdle
    /\ LookupIdle
    /\ StatsIdle
    /\ SaSdIdle
    /\ BottleneckIdle
    /\ RunIdle

\* report = aggregate(config, jira_data, github_data, jenkins_data)
Aggregate ==
    /\ agg_pc = "input"
    /\ report' = AggregateReport(agg_config, jira_data, github_data,
                                 jenkins_data, clock_ticks)
    /\ agg_pc' = "done"
    /\ UNCHANGED <<agg_config, jira_data, github_data, jenkins_data, clock_ticks>>
    /\ UNCHANGED <<phase_vars, lookup_vars, stats_vars, sasd_vars, bottleneck_vars>>
    /\ UNCHANGED run_vars

NextAggregate == Aggregate

SpecAggregate == InitAggregate /\ [][NextAggregate]_vars

-----------------------------------------------------------------------------
(* Claims about the rollup.  A block is the cycle_time/throughput of one   *)
(* project of a team or of the team as a whole ("team").                   *)

ConfiguredTeams == IF agg_config.teams.has THEN agg_config.teams.v ELSE <<>>

TeamNumbers == 1..Len(ConfiguredTeams)

Scopes(t) == SetOf(ConfiguredTeams[t].jira_projects) \cup {"team"}

\* the issues of jira_data that belong to the block
GroupIssues(t, scope) ==
    Filter(jira_data, LAMBDA issue :
        IF scope = "team"
        THEN issue.project \in SetOf(ConfiguredTeams[t].jira_projects)
        ELSE issue.project = scope)

Block(t, scope) ==
    IF scope = "team" THEN report.teams[ConfiguredTeams[t].id].aggregated
    ELSE report.teams[ConfiguredTeams[t].id].projects[scope]

\* the issue is SA/SD under the rules in force for the team
ClassifiedSaSd(t, issue) ==
    LET matcher == BuildSaSdMatcher(agg_config.sa_sd_rules, ConfiguredTeams[t].id)
    IN  IsSaSdIssue(issue, matcher.types, matcher.patterns)

Resolved(issues) == Filter(issues, LAMBDA issue : issue.resolved # NoTime)

SaSdIssues(t, scope) ==
    Filter(GroupIssues(t, scope), LAMBDA issue : ClassifiedSaSd(t, issue))

NormalIssues(t, scope) ==
    Filter(GroupIssues(t, scope), LAMBDA issue : ~ClassifiedSaSd(t, issue))

\* sum of the phase hours outside backlog/done/unmapped
ActiveTotal(issue) ==
    SetSum(DOMAIN issue.phase_durations \ {"backlog", "done", "unmapped"},
           issue.phase_durations)

WithActiveTime(issues) == Filter(issues, LAMBDA issue : ActiveTotal(issue) > 0)

ActiveTotals(issues) == [i \in 1..Len(issues) |-> ActiveTotal(issues[i])]

\* the hours of the issues that have time in the phase
HoursIn(issues, ph) ==
    LET having == Filter(issues, LAMBDA issue :
                      ph \in DOMAIN issue.phase_durations
                      /\ issue.phase_durations[ph] > 0)
    IN  [i \in 1..Len(having) |-> having[i].phase_durations[ph]]

\* the statistics of a sample of hours (held as ticks), by the
\* linear-interpolation estimator on order statistics
ExpectedStats(sample) ==
    IF sample = <<>> THEN [p50 |-> 0, p85 |-> 0, count |-> 0]
    ELSE [p50   |-> RoundHalfEven(LinearEstimate(sample, 50), 24 * TicksPerHour),
          p85   |-> RoundHalfEven(LinearEstimate(sample, 85), 24 * TicksPerHour),
          count |-> Len(sample)]

PhaseIds == {agg_config.phases[i].id : i \in 1..Len(agg_config.phases)}

\* every resolved issue of the run falls into the newest week and into the
\* throughput window, whatever the clock showed at a read
AllResolvedRecent ==
    \A i \in 1..Len(jira_data) :
        jira_data[i].resolved # NoTime =>
            /\ jira_data[i].resolved <= RunDay
            /\ RunDay + MaxTicks - jira_data[i].resolved < 7

\* C13: every SA/SD-classified issue that is resolved and has positive
\* active hours contributes exactly one sample, equal to that sum, to the
\* planning statistics of its project and of its team (next to the planning
\* hours of the other resolved issues), one with zero active hours
\* contributes none, and every SA/SD-classified issue is excluded from the
\* per-phase, total and throughput figures of its project and team.  The
\* planning sample is stated for blocks without an unresolved SA/SD issue
\* that has active hours.
C13_SaSdMergedIntoPlanning ==
    agg_pc = "done" =>
        \A t \in TeamNumbers : \A scope \in Scopes(t) :
            LET sa_sd  == SaSdIssues(t, scope)
                normal == Resolved(NormalIssues(t, scope))
                block  == Block(t, scope)
            IN  /\ (\A i \in 1..Len(sa_sd) :
                        sa_sd[i].resolved = NoTime => ActiveTotal(sa_sd[i]) = 0)
                    => block.cycle_time["planning"] =
                         ExpectedStats(HoursIn(normal, "planning")
                                       \o ActiveTotals(WithActiveTime(Resolved(sa_sd))))
                /\ \A ph \in PhaseIds \ {"planning"} :
                      block.cycle_time[ph] = ExpectedStats(HoursIn(normal, ph))
                /\ block.cycle_time["total"].count = Len(WithActiveTime(normal))
                /\ AllResolvedRecent =>
                      /\ block.throughput.completed_issues = Len(normal)
                      /\ block.throughput.weekly_trend = <<0, 0, 0, Len(normal)>>

\* a project with a resolved SA/SD issue and a resolved normal issue that
\* both have planning time: two planning samples, one dev sample
C13_Witness ==
    /\ agg_pc = "done"
    /\ \E t \in TeamNumbers : \E scope \in Scopes(t) \ {"team"} :
          /\ Len(WithActiveTime(Resolved(SaSdIssues(t, scope)))) = 1
          /\ Len(HoursIn(Resolved(NormalIssues(t, scope)), "planning")) = 1
          /\ Block(t, scope).cycle_time["planning"].count = 2
          /\ Block(t, scope).cycle_time["dev"].count = 1
          /\ Block(t, scope).throughput.completed_issues = 1

\* C14: an SA/SD-classified issue that is not resolved but has positive
\* active hours still contributes its elapsed active time as a planning
\* sample: aggregating a single unresolved SA/SD issue with planning = 48 h
\* yields planning.count = 1 for its project.
C14_UnresolvedSaSdCounted ==
    (/\ agg_pc = "done"
     /\ Len(jira_data) = 1
     /\ jira_data[1].resolved = NoTime
     /\ jira_data[1].phase_durations = [ph \in {"planning"} |-> 48 * TicksPerHour])
    => \A t \in TeamNumbers :
          (/\ jira_data[1].project \in SetOf(ConfiguredTeams[t].jira_projects)
           /\ ClassifiedSaSd(t, jira_data[1]))
          => Block(t, jira_data[1].project).cycle_time["planning"].count = 1

\* C16: in every cycle_time block the total bucket is computed over exactly
\* the resolved issues of the group (the issues the block is computed over,
\* SA/SD issues set aside) whose active sum is positive, one sample per
\* issue equal to that sum; total.count is their number, and for two
\* resolved issues with active totals 72 h and 48 h total.p50 is 2.5 days.
C16_TotalOverResolvedActive ==
    agg_pc = "done" =>
        \A t \in TeamNumbers : \A scope \in Scopes(t) :
            LET counted == WithActiveTime(Resolved(NormalIssues(t, scope)))
                total   == Block(t, scope).cycle_time["total"]
            IN  /\ total = ExpectedStats(ActiveTotals(counted))
                /\ total.count = Len(counted)
                /\ SetOf(ActiveTotals(counted))
                      = {72 * TicksPerHour, 48 * TicksPerHour}
                   /\ Len(counted) = 2
                   => total.p50 = 250

\* a project with resolved issues of 72 h and 48 h, given in that order
C16_Witness ==
    /\ agg_pc = "done"
    /\ Len(jira_data) = 2
    /\ \E t \in TeamNumbers : \E scope \in Scopes(t) \ {"team"} :
          /\ ActiveTotals(WithActiveTime(Resolved(NormalIssues(t, scope))))
                = <<72 * TicksPerHour, 48 * TicksPerHour>>
          /\ Block(t, scope).cycle_time["total"].p50 = 250
          /\ Block(t, scope).cycle_time["total"].count = 2

\* the configured phases that can be a bottleneck and have a sample in the
\* team's block, by their place in the configured order
BottleneckCandidates(t) ==
    {i \in 1..Len(agg_config.phases) :
        /\ agg_config.phases[i].id \notin {"backlog", "done", "unmapped", "total"}
        /\ Block(t, "team").cycle_time[agg_config.phases[i].id].count > 0}

P50Of(t, i) == Block(t, "team").cycle_time[agg_config.phases[i].id].p50

\* C17: for every team, aggregated.bottleneck_phase is the configured phase,
\* other than backlog/done/unmapped/total, that has the highest p50 among
\* the phases with at least one sample in the team's cycle_time block; of
\* several phases with the highest p50 the first in configured order is
\* chosen; it is null only when no such phase has a sample.
C17_BottleneckIsHighestP50 ==
    agg_pc = "done" =>
        \A t \in TeamNumbers :
            LET cands == BottleneckCandidates(t)
                chosen == Block(t, "team").bottleneck_phase
            IN  IF cands = {} THEN chosen = None
                ELSE \E i \in cands :
                        /\ chosen = agg_config.phases[i].id
                        /\ \A j \in cands : P50Of(t, j) <= P50Of(t, i)
                        /\ \A j \in cands : P50Of(t, j) = P50Of(t, i) => i <= j

-----------------------------------------------------------------------------
(* C19: the degenerate inputs *)

\* no issue, and no pull request and no build (None or an empty list)
DegenerateInput ==
    /\ jira_data = <<>>
    /\ github_data \in {NotGiven, GivenList(<<>>)}
    /\ jenkins_data \in {NotGiven, GivenList(<<>>)}

\* every statistic of a cycle_time block has count 0
AllCountsZero(cycle_time) ==
    \A phase \in DOMAIN cycle_time : cycle_time[phase].count = 0

\* the sections of the report
ReportSections == {"generated_at", "period", "summary", "teams", "trends"}

\* C19: on an empty issue list without pull requests and builds, aggregate
\* returns a report with generated_at, period, summary, teams and trends;
\* every configured team has an entry in teams and in trends;
\* total_completed_issues is 0, every cycle_time count is 0 and
\* avg_cycle_time_days, pr_metrics, build_metrics, bottleneck_phase and
\* pr_pickup_hours are null; without a `teams` key, teams and trends are empty
C19_DegenerateInputReport ==
    (agg_pc = "done" /\ DegenerateInput) =>
        /\ ReportSections \subseteq DOMAIN report
        /\ DOMAIN report.teams = {ConfiguredTeams[t].id : t \in TeamNumbers}
        /\ DOMAIN report.trends = DOMAIN report.teams
        /\ ~agg_config.teams.has =>
               /\ DOMAIN report.teams = {}
               /\ DOMAIN report.trends = {}
        /\ report.summary.total_completed_issues = 0
        /\ report.summary.avg_cycle_time_days = NoNumber
        /\ \A id \in DOMAIN report.teams :
               LET team == report.teams[id]
               IN  /\ AllCountsZero(team.aggregated.cycle_time)
                   /\ \A k \in DOMAIN team.projects :
                          /\ AllCountsZero(team.projects[k].cycle_time)
                          /\ team.projects[k].pr_metrics = NoneDict
                   /\ team.aggregated.pr_metrics = NoneDict
                   /\ team.aggregated.build_metrics = NoneDict
                   /\ team.aggregated.bottleneck_phase = None
                   /\ report.trends[id].pr_pickup_hours = NoNumber

\* aggregate has run on a degenerate input for two configured teams, each
\* with a project
C19_Witness ==
    /\ agg_pc = "done"
    /\ DegenerateInput
    /\ github_data = GivenList(<<>>)
    /\ jenkins_data = NotGiven
    /\ Cardinality(DOMAIN report.teams) = 2
    /\ \A id \in DOMAIN report.teams : DOMAIN report.teams[id].projects # {}

\* aggregate has run on a degenerate input for a config without `teams`
C19_WitnessNoTeams ==
    /\ agg_pc = "done"
    /\ DegenerateInput
    /\ ~agg_config.teams.has
    /\ DOMAIN report.teams = {}

-----------------------------------------------------------------------------
(* aggregate while the clock advances *)

\* days of resolution: none, the day before the run, six days before it (the
\* last day of the current week bucket) and thirty days before it
ResolvedDays == {NoTime, RunDay - 1, RunDay - 6, RunDay - 30}

InitClock ==
    /\ agg_config \in
           {AggConfig(Given(teams), NoSaSdRules, "https://jira") :
               teams \in {OneProjectTeam, TwoTeams}}
    /\ jira_data \in IssueLists(MaxIssues, {"PROJ-A", "PROJ-B"},
                                {[issue_type |-> "Story", summary |-> <<>>]},
                                ResolvedDays, {("dev" :> 240)})
    /\ github_data = NotGiven
    /\ jenkins_data = NotGiven
    /\ clock_ticks \in ClockRuns
    /\ report = [kind |-> "idle"]
    /\ agg_pc = "input"
    /\ PhaseIdle
    /\ LookupIdle
    /\ StatsIdle
    /\ SaSdIdle
    /\ BottleneckIdle
    /\ RunIdle

SpecClock == InitClock /\ [][NextAggregate]_vars

\* C20: one run of aggregate computes every cutoff and week bucket against
\* one instant, so for every team aggregated.throughput.weekly_trend equals
\* trends[team].throughput, however the clock advances during the run
C20_SingleInstant ==
    agg_pc = "done" =>
        \A id \in DOMAIN report.teams :
            report.teams[id].aggregated.throughput.weekly_trend
                = report.trends[id].throughput

-----------------------------------------------------------------------------
(* aggregate with pull requests that name Jira issues *)

MaxPrs == 2         \* pull requests in github_data

\* PRMetrics of repo-a that name an issue (in either case) or none, reviewed
\* after 48 h or never, merged after 60 h or not merged
LinkedPullRequests ==
    {[repo |-> "repo-a", jira_keys |-> keys, created_at |-> 0,
      first_review_at |-> review, merged_at |-> merged, is_large |-> FALSE] :
        keys \in {<<"PROJ-A-1">>, <<"proj-a-2">>, <<>>},
        review \in {48, NoTime},
        merged \in {60, NoTime}}

PullRequestLists ==
    UNION {[1..n -> LinkedPullRequests] : n \in 0..MaxPrs}

InitPrDev ==
    /\ agg_config \in
           {AggConfig(Given(teams), NoSaSdRules, "https://jira") :
               teams \in {OneProjectTeam, TwoProjectTeam}}
    /\ jira_data \in IssueLists(MaxIssues, {"PROJ-A"},
                                {[issue_type |-> "Story", summary |-> <<>>]},
                                {NoTime, RunDay - 1},
                                {("dev" :> 1), ("dev" :> 72 * TicksPerHour)})
    /\ github_data \in {GivenList(prs) : prs \in PullRequestLists}
    /\ jenkins_data = NotGiven
    /\ clock_ticks = <<>>
    /\ report = [kind |-> "idle"]
    /\ agg_pc = "input"
    /\ PhaseIdle
    /\ LookupIdle
    /\ StatsIdle
    /\ SaSdIdle
    /\ BottleneckIdle
    /\ RunIdle

SpecPrDev == InitPrDev /\ [][NextAggregate]_vars

\* a Jira key in upper case
UpperKey(k) ==
    CASE k = "proj-a-1" -> "PROJ-A-1"
      [] k = "proj-a-2" -> "PROJ-A-2"
      [] OTHER -> k

\* the merged pull requests of github_data that name the issue
LinkedMergedPrs(issue) ==
    {i \in 1..Len(github_data.items) :
        /\ github_data.items[i].merged_at # NoTime
        /\ \E j \in 1..Len(github_data.items[i].jira_keys) :
               UpperKey(github_data.items[i].jira_keys[j]) = issue.key}

Least(S) == CHOOSE x \in S : \A y \in S : x <= y

\* the PR-derived dev time of a non-empty set of pull requests, in ticks:
\* from the earliest created_at to the earliest first_review_at, or to the
\* earliest merged_at when none was reviewed
PrDevTicks(linked) ==
    LET prs      == github_data.items
        created  == Least({prs[i].created_at : i \in linked})
        reviewed == {prs[i].first_review_at : i \in linked} \ {NoTime}
        merged   == {prs[i].merged_at : i \in linked}
    IN  TicksPerHour * (IF reviewed # {} THEN Least(reviewed) - created
                        ELSE Least(merged) - created)

\* the dev time of an issue after the correction
CorrectedDev(issue) ==
    IF issue.resolved # NoTime /\ LinkedMergedPrs(issue) # {}
    THEN LET recorded == issue.phase_durations["dev"]
             derived  == PrDevTicks(LinkedMergedPrs(issue))
         IN  IF derived > recorded THEN derived ELSE recorded
    ELSE issue.phase_durations["dev"]

\* C15: after aggregate, every resolved issue with a linked merged pull
\* request counts with dev hours = max(recorded, PR-derived), and unresolved
\* issues and issues without a linked merged pull request with their
\* recorded hours: the dev statistics of every project and team are those of
\* the corrected dev hours of its resolved issues
C15_PrDevCorrection ==
    agg_pc = "done" =>
        \A t \in TeamNumbers : \A scope \in Scopes(t) :
            LET issues == Resolved(NormalIssues(t, scope))
            IN  Block(t, scope).cycle_time["dev"]
                    = ExpectedStats([i \in 1..Len(issues) |->
                                        CorrectedDev(issues[i])])

-----------------------------------------------------------------------------
(* C28: the result of compute_phase_durations with a fresh collector *)

\* compute_phase_durations has run with a collector that was empty
CalledWithEmptyCollector == pc = "remapped" /\ status_changes # <<>>

\* C28: when compute_phase_durations is called with an empty
\* unmapped_collector, the result has the key `unmapped` iff the collector is
\* non-empty afterwards, every value of the result is strictly positive, and
\* every key is a phase in the range of the lookup or `unmapped`
C28_PositiveKnownKeys ==
    CalledWithEmptyCollector =>
        /\ ("unmapped" \in DOMAIN phase_durations)
               <=> (unmapped_collector.items # {})
        /\ \A k \in DOMAIN phase_durations : phase_durations[k] > 0
        /\ DOMAIN phase_durations \subseteq LookupPhases \cup {"unmapped"}

\* the call met an interval of zero length, time in an unmapped status and
\* time in a mapped one
C28_Witness ==
    /\ CalledWithEmptyCollector
    /\ ~NoZeroInterval
    /\ "unmapped" \in DOMAIN phase_durations
    /\ unmapped_collector.items # {}
    /\ DOMAIN phase_durations \cap LookupPhases # {}

-----------------------------------------------------------------------------
(* C25, C29: the cycle_time blocks after the SA/SD merge *)

\* the cycle_time block of the group before _merge_sa_sd_into_planning
BlockBeforeMerge(t, scope) ==
    ComputeCycleTimeForProject(NormalIssues(t, scope), agg_config.phases)

\* the SA/SD issues of the group that give a planning sample
SaSdSamples(t, scope) == WithActiveTime(Resolved(SaSdIssues(t, scope)))

\* C25: _merge_sa_sd_into_planning changes only the `planning` entry of a
\* cycle_time block: every other phase and `total` are as before the merge,
\* and without an SA/SD sample the whole block is as before
C25_MergeTouchesPlanningOnly ==
    agg_pc = "done" =>
        \A t \in TeamNumbers : \A scope \in Scopes(t) :
            LET after  == Block(t, scope).cycle_time
                before == BlockBeforeMerge(t, scope)
            IN  /\ DOMAIN after = DOMAIN before
                /\ \A k \in DOMAIN after \ {"planning"} : after[k] = before[k]
                /\ SaSdSamples(t, scope) = <<>> => after = before

\* a merge happened in a block that has another phase and a total, and the
\* planning entry changed
C25_Witness ==
    /\ agg_pc = "done"
    /\ \E t \in TeamNumbers : \E scope \in Scopes(t) :
          /\ SaSdSamples(t, scope) # <<>>
          /\ Block(t, scope).cycle_time["planning"]
                 # BlockBeforeMerge(t, scope)["planning"]
          /\ Block(t, scope).cycle_time["dev"].count > 0
          /\ Block(t, scope).cycle_time["total"].count > 0

\* the configured phases that count towards the total
ActivePhaseIds == PhaseIds \ EXCLUDED_FROM_TOTAL

\* C29 (as stated): in every cycle_time block, every configured phase other
\* than backlog, done and unmapped has a count of at most total.count
C29_PhaseCountAtMostTotal ==
    agg_pc = "done" =>
        \A t \in TeamNumbers : \A scope \in Scopes(t) :
            \A ph \in ActivePhaseIds :
                Block(t, scope).cycle_time[ph].count
                    <= Block(t, scope).cycle_time["total"].count

\* C29 (amended): in every cycle_time block, every configured phase other
\* than backlog, done, unmapped and planning has a count of at most
\* total.count, and planning has at most total.count plus the number of
\* SA/SD samples merged into it
C29_PhaseCountAtMostTotalPlusSaSd ==
    agg_pc = "done" =>
        \A t \in TeamNumbers : \A scope \in Scopes(t) :
            \A ph \in ActivePhaseIds :
                Block(t, scope).cycle_time[ph].count
                    <= Block(t, scope).cycle_time["total"].count
                       + (IF ph = "planning" THEN Len(SaSdSamples(t, scope)) ELSE 0)

\* a block whose planning count exceeds its total count through a merge,
\* next to a counted dev sample
C29_Witness ==
    /\ agg_pc = "done"
    /\ \E t \in TeamNumbers : \E scope \in Scopes(t) :
          /\ Block(t, scope).cycle_time["planning"].count
                 > Block(t, scope).cycle_time["total"].count
          /\ Block(t, scope).cycle_time["dev"].count > 0
          /\ SaSdSamples(t, scope) # <<>>

-----------------------------------------------------------------------------
(* One call of compute_weekly_trend, group_by_team_project or
   _compute_build_metrics *)

MaxBuilds == 2      \* builds handed to _compute_build_metrics

\* days of resolution: none, today, 6, 7, 20, 27 and 28 days ago, and a day
\* in the future
TrendDays ==
    {NoTime, RunDay, RunDay - 6, RunDay - 7, RunDay - 20, RunDay - 27,
     RunDay - 28, RunDay + 3}

TrendCalls ==
    {[fn |-> "compute_weekly_trend", issues |-> issues, num_weeks |-> n] :
        issues \in IssueLists(MaxIssues, {"PROJ-A"},
                              {[issue_type |-> "Story", summary |-> <<>>]},
                              TrendDays, {("dev" :> 240)}),
        n \in {1, 2, 4}}

\* two teams that both list PROJ-B
SharedProjectTeams ==
    <<Team("team-alpha", "Team Alpha", <<"PROJ-A", "PROJ-B">>),
      Team("team-beta", "Team Beta", <<"PROJ-B">>)>>

GroupCalls ==
    {[fn |-> "group_by_team_project", teams |-> teams, issues |-> issues] :
        teams \in {<<>>, OneProjectTeam, TwoTeams, SharedProjectTeams},
        issues \in IssueLists(MaxIssues, {"PROJ-A", "PROJ-B"},
                              {[issue_type |-> "Story", summary |-> <<>>]},
                              {RunDay - 1}, {("dev" :> 240)})}

\* the builds of Builds and one in progress that reports a duration
BuildPool ==
    Builds \cup {[job_name |-> "job-a", result |-> None, duration_ms |-> 300000,
                  timestamp |-> 99],
                 [job_name |-> "job-a", result |-> "SUCCESS", duration_ms |-> 300000,
                  timestamp |-> 92]}

BuildCalls ==
    {[fn |-> "_compute_build_metrics", builds |-> builds] :
        builds \in UNION {[1..n -> BuildPool] : n \in 0..MaxBuilds}}

InitCalls ==
    /\ call_args \in TrendCalls \cup GroupCalls \cup BuildCalls
    /\ call_result = <<>>
    /\ call_pc = "input"
    /\ JenkinsIdle
    /\ MainIdle
    /\ PhaseIdle
    /\ LookupIdle
    /\ StatsIdle
    /\ RulesIdle

\* call_result = compute_weekly_trend(issues, num_weeks)
CallWeeklyTrend ==
    /\ call_pc = "input"
    /\ call_args.fn = "compute_weekly_trend"
    /\ call_result' = ComputeWeeklyTrend(call_args.issues, call_args.num_weeks,
                                         RunDay)
    /\ call_pc' = "done"
    /\ UNCHANGED <<call_args, jenkins_vars, main_vars>>
    /\ UNCHANGED <<phase_vars, lookup_vars, stats_vars, rules_vars>>

\* call_result = group_by_team_project(config, issues)
CallGroupByTeamProject ==
    /\ call_pc = "input"
    /\ call_args.fn = "group_by_team_project"
    /\ call_result' = GroupedDict(call_args.teams, call_args.issues)
    /\ call_pc' = "done"
    /\ UNCHANGED <<call_args, jenkins_vars, main_vars>>
    /\ UNCHANGED <<phase_vars, lookup_vars, stats_vars, rules_vars>>

\* call_result = _compute_build_metrics(builds)
CallBuildMetrics ==
    /\ call_pc = "input"
    /\ call_args.fn = "_compute_build_metrics"
    /\ call_result' = ComputeBuildMetrics(call_args.builds, RunDay)
    /\ call_pc' = "done"
    /\ UNCHANGED <<call_args, jenkins_vars, main_vars>>
    /\ UNCHANGED <<phase_vars, lookup_vars, stats_vars, rules_vars>>

NextCalls == CallWeeklyTrend \/ CallGroupByTeamProject \/ CallBuildMetrics

SpecCalls == InitCalls /\ [][NextCalls]_vars

Returned(fn) == call_pc = "done" /\ call_args.fn = fn

\* whole days between the resolution of issue i and now
DaysAgo(i) == RunDay - call_args.issues[i].resolved

\* issue i is resolved, and w whole weeks ago
ResolvedWeeksAgo(i, w) ==
    /\ call_args.issues[i].resolved # NoTime
    /\ 7 * w <= DaysAgo(i)
    /\ DaysAgo(i) <= 7 * w + 6

\* C22: compute_weekly_trend returns exactly num_weeks counts, oldest week
\* first: an issue resolved d whole days before now is counted once, at
\* position num_weeks - 1 - (d div 7), iff it is resolved and
\* 0 <= d div 7 < num_weeks; unresolved issues and issues outside the window
\* are counted nowhere, so the counts sum to the resolved issues in the window
C22_WeeklyTrendBuckets ==
    Returned("compute_weekly_trend") =>
        LET n      == call_args.num_weeks
            issues == call_args.issues
            InWindow == {i \in 1..Len(issues) :
                            \E w \in 0..(n - 1) : ResolvedWeeksAgo(i, w)}
        IN  /\ Len(call_result) = n
            /\ \A w \in 0..(n - 1) :
                   \* position n - 1 - w, counted from 0
                   call_result[n - w] =
                       Cardinality({i \in 1..Len(issues) : ResolvedWeeksAgo(i, w)})
            /\ SetSum(1..n, call_result) = Cardinality(InWindow)

\* a call over four weeks with an issue resolved 27 days ago, counted in the
\* oldest week, and one resolved 28 days ago, counted nowhere
C22_Witness ==
    /\ Returned("compute_weekly_trend")
    /\ call_args.num_weeks = 4
    /\ call_result = <<1, 0, 0, 0>>
    /\ \E i, j \in 1..Len(call_args.issues) :
          /\ call_args.issues[i].resolved = RunDay - 27
          /\ call_args.issues[j].resolved = RunDay - 28

\* the teams of the call that list the project
TeamsListing(project) ==
    {t \in 1..Len(call_args.teams) :
        project \in SetOf(call_args.teams[t].jira_projects)}

\* the <<team id, project>> lists of the result that hold the issue
ListsHolding(issue) ==
    {tp \in UNION {{<<id, k>> : k \in DOMAIN call_result[id]} :
                       id \in DOMAIN call_result} :
        issue \in SetOf(call_result[tp[1]][tp[2]])}

\* C23: group_by_team_project partitions its input: an issue of a project
\* that some team lists is in exactly one team/project list, once, under its
\* own project and a team that lists it; an issue of a project no team lists
\* is in no list; every configured team and each of its projects has a list,
\* empty or not, and the call returns for every input
C23_GroupingPartitions ==
    Returned("group_by_team_project") =>
        LET teams  == call_args.teams
            issues == call_args.issues
        IN  /\ DOMAIN call_result = {teams[t].id : t \in 1..Len(teams)}
            /\ \A t \in 1..Len(teams) :
                   DOMAIN call_result[teams[t].id] = SetOf(teams[t].jira_projects)
            /\ \A i \in 1..Len(issues) :
                   IF TeamsListing(issues[i].project) = {}
                   THEN ListsHolding(issues[i]) = {}
                   ELSE \E t \in TeamsListing(issues[i].project) :
                          /\ ListsHolding(issues[i]) =
                                 {<<teams[t].id, issues[i].project>>}
                          /\ LET list == call_result[teams[t].id][issues[i].project]
                             IN  Cardinality({p \in 1..Len(list) :
                                                 list[p] = issues[i]}) = 1

\* two teams list PROJ-B: its issue is under one of them and the other's list
\* is empty, while PROJ-A's issue is under the only team that lists it
C23_Witness ==
    /\ Returned("group_by_team_project")
    /\ call_args.teams = SharedProjectTeams
    /\ Len(call_result["team-beta"]["PROJ-B"]) = 1
    /\ call_result["team-alpha"]["PROJ-B"] = <<>>
    /\ Len(call_result["team-alpha"]["PROJ-A"]) = 1

\* an issue of PROJ-B when only PROJ-A is configured is dropped
C23_WitnessUnmatched ==
    /\ Returned("group_by_team_project")
    /\ call_args.teams = OneProjectTeam
    /\ \E i \in 1..Len(call_args.issues) : call_args.issues[i].project = "PROJ-B"
    /\ call_result["team-alpha"]["PROJ-A"] = <<>>

\* the builds of the call that have a result
CompletedBuilds ==
    {i \in 1..Len(call_args.builds) : call_args.builds[i].result # None}

\* the completed builds of the call that report a duration
TimedBuilds == {i \in CompletedBuilds : call_args.builds[i].duration_ms > 0}

\* C24: _compute_build_metrics counts only completed builds: total_builds is
\* their number, success_rate the SUCCESS builds over the completed ones in
\* per cent to one decimal, avg_duration_mins the mean over the completed
\* builds that report a duration; the result is None exactly when no build is
\* completed (tenths of a per cent and of a minute)
C24_OnlyCompletedBuilds ==
    Returned("_compute_build_metrics") =>
        LET builds    == call_args.builds
            successes == {i \in CompletedBuilds : builds[i].result = "SUCCESS"}
            total_ms  == SetSum(TimedBuilds, [i \in 1..Len(builds) |->
                                                 builds[i].duration_ms])
        IN  IF CompletedBuilds = {} THEN call_result = NoneDict
            ELSE /\ call_result # NoneDict
                 /\ call_result.total_builds = Cardinality(CompletedBuilds)
                 /\ call_result.success_rate =
                        RoundHalfEven(1000 * Cardinality(successes),
                                      Cardinality(CompletedBuilds))
                 /\ call_result.avg_duration_mins =
                        IF TimedBuilds = {} THEN 0
                        ELSE RoundHalfEven(10 * total_ms,
                                           60000 * Cardinality(TimedBuilds))

\* a finished build of 2 minutes next to one in progress for 5 minutes so far
C24_Witness ==
    /\ Returned("_compute_build_metrics")
    /\ Len(call_args.builds) = 2
    /\ \E i \in 1..2 : /\ call_args.builds[i].result = None
                       /\ call_args.builds[i].duration_ms = 300000
    /\ call_result # NoneDict
    /\ call_result.total_builds = 1
    /\ call_result.success_rate = 1000
    /\ call_result.avg_duration_mins = 20

\* every build handed over is still in progress: None
C24_WitnessAllInProgress ==
    /\ Returned("_compute_build_metrics")
    /\ call_args.builds # <<>>
    /\ CompletedBuilds = {}
    /\ call_result = NoneDict

-----------------------------------------------------------------------------
(* collect_jenkins_builds: one fetch per configured job *)

MaxJobs == 5        \* jenkins_jobs configured over all teams

\* the jenkins_jobs of the teams, in the order the loops visit them
JobNames == <<"job-1", "job-2", "job-3", "job-4", "job-5", "job-6">>

\* what _fetch_builds_for_job meets for a job: a request that fails, or one
\* build inside the lookback window
JobResponses(job_name) ==
    {[failed |-> TRUE, builds |-> <<>>],
     [failed |-> FALSE,
      builds |-> <<[job_name |-> job_name, result |-> "SUCCESS",
                    duration_ms |-> 120000, timestamp |-> 99]>>]}

\* _fetch_builds_for_job(base_url, job_name, auth, cutoff, api_delay): [] when
\* the request raises, the builds of the response otherwise
FetchBuildsForJob(response) ==
    IF response.failed THEN <<>> ELSE response.builds

InitJenkins ==
    /\ \E n \in 0..MaxJobs :
          /\ jk_config \in [enabled     : BOOLEAN,
                            base_url    : {"", "https://jenkins.example.com"},
                            credentials : BOOLEAN,
                            jobs        : {SubSeq(JobNames, 1, n)}]
          /\ jk_responses \in {r \in [1..n -> UNION {JobResponses(JobNames[j]) : j \in 1..n}] :
                                  \A j \in 1..n : r[j] \in JobResponses(JobNames[j])}
    /\ jk_index = 0
    /\ jk_fetches = 0
    /\ jk_results = <<>>
    /\ jk_pc = "input"
    /\ CallIdle
    /\ MainIdle
    /\ PhaseIdle
    /\ LookupIdle
    /\ StatsIdle
    /\ RulesIdle

\* the three early returns: not enabled, no base_url, no JENKINS_USER or
\* JENKINS_API_TOKEN
JenkinsSkipped ==
    /\ jk_pc = "input"
    /\ \/ ~jk_config.enabled
       \/ jk_config.base_url = ""
       \/ ~jk_config.credentials
    /\ jk_results' = <<>>
    /\ jk_pc' = "returned"
    /\ UNCHANGED <<jk_config, jk_responses, jk_index, jk_fetches>>
    /\ UNCHANGED <<call_vars, main_vars>>
    /\ UNCHANGED <<phase_vars, lookup_vars, stats_vars, rules_vars>>

\* auth, cutoff and the empty result list, before the loops over the jobs
JenkinsStart ==
    /\ jk_pc = "input"
    /\ jk_config.enabled
    /\ jk_config.base_url # ""
    /\ jk_config.credentials
    /\ jk_results' = <<>>
    /\ jk_pc' = "loop"
    /\ UNCHANGED <<jk_config, jk_responses, jk_index, jk_fetches>>
    /\ UNCHANGED <<call_vars, main_vars>>
    /\ UNCHANGED <<phase_vars, lookup_vars, stats_vars, rules_vars>>

\* one pass of the loop body: fetch the next job and extend the results
FetchJob ==
    /\ jk_pc = "loop"
    /\ jk_index < Len(jk_config.jobs)
    /\ jk_index' = jk_index + 1
    /\ jk_fetches' = jk_fetches + 1
    /\ jk_results' = jk_results \o FetchBuildsForJob(jk_responses[jk_index + 1])
    /\ UNCHANGED <<jk_config, jk_responses, jk_pc>>
    /\ UNCHANGED <<call_vars, main_vars>>
    /\ UNCHANGED <<phase_vars, lookup_vars, stats_vars, rules_vars>>

\* the loops are exhausted: return results
JenkinsReturn ==
    /\ jk_pc = "loop"
    /\ jk_index = Len(jk_config.jobs)
    /\ jk_pc' = "returned"
    /\ UNCHANGED <<jk_config, jk_responses, jk_index, jk_fetches, jk_results>>
    /\ UNCHANGED <<call_vars, main_vars>>
    /\ UNCHANGED <<phase_vars, lookup_vars, stats_vars, rules_vars>>

NextJenkins == JenkinsSkipped \/ JenkinsStart \/ FetchJob \/ JenkinsReturn

SpecJenkins == InitJenkins /\ [][NextJenkins]_vars

\* the fetches of jobs k-2, k-1 and k all failed
ThreeFailuresUpTo(k) ==
    /\ k >= 3
    /\ \A j \in (k - 2)..k : jk_responses[j].failed

\* C21: collect_jenkins_builds has a circuit breaker: once three consecutive
\* job fetches have failed no further job is fetched (five failing jobs: three
\* fetches), and what is returned is the builds collected up to then
C21_CircuitBreaker ==
    /\ \A i \in 1..jk_fetches : \A k \in 1..(i - 1) : ~ThreeFailuresUpTo(k)
    /\ (jk_pc = "returned" /\ jk_index > 0 /\ Len(jk_config.jobs) = 5
          /\ \A j \in 1..5 : jk_responses[j].failed)
       => jk_fetches = 3 /\ jk_results = <<>>

\* what the loop does: every configured job is fetched, whatever failed
JenkinsFetchesEveryJob ==
    (jk_pc = "returned" /\ jk_config.enabled /\ jk_config.base_url # ""
       /\ jk_config.credentials)
    => jk_fetches = Len(jk_config.jobs)

\* five failing jobs, five fetches, an empty list returned
FiveFailuresFiveFetches ==
    /\ jk_pc = "returned"
    /\ Len(jk_config.jobs) = 5
    /\ \A j \in 1..5 : jk_responses[j].failed
    /\ jk_fetches = 5
    /\ jk_results = <<>>

-----------------------------------------------------------------------------
(* main: the issue cache of one run - load, collect, merge, evict, remap,   *)
(* save.  Times are whole hours; a time written to the cache or sent by     *)
(* Jira is a string, carried as <<t>> and parsed back by the reader.        *)

MaxCached == 2      \* issue keys the cache file and the Jira search range over

CacheKeys == SetOf(SubSeq(IssueKeys["PROJ-A"], 1, MaxCached))

\* datetime.isoformat() and datetime.fromisoformat(s)
Isoformat(t) == <<t>>
FromIsoformat(s) == s[1]

\* `x.isoformat() if x else None` and `fromisoformat(s) if s else None`
IsoformatOrNone(t) == IF t = NoTime THEN <<>> ELSE Isoformat(t)
FromIsoformatOrNone(s) == IF s = <<>> THEN NoTime ELSE FromIsoformat(s)

\* parse_jira_datetime(dt_str)
ParseJiraDatetime(dt_str) == dt_str[1]

\* now, and the hours of lookback_days: one day
RunNow == 50
LookbackDays == 1

\* cutoff = now - timedelta(days=lookback_days)
Cutoff(now_, lookback_days) == now_ - 24 * lookback_days

\* the changelog of an issue that went To Do -> In Progress at 32, changed
\* assignee at 35 and went In Progress -> Blocked at 40
Histories ==
    <<[created |-> <<32>>,
       items |-> <<[field |-> "status", fromString |-> "To Do",
                    toString |-> "In Progress"]>>],
      [created |-> <<35>>,
       items |-> <<[field |-> "assignee", fromString |-> "ann",
                    toString |-> "bob"]>>],
      [created |-> <<40>>,
       items |-> <<[field |-> "status", fromString |-> "In Progress",
                    toString |-> "Blocked"]>>]>>

\* what the Jira search returns for a key: an open issue and a resolved one
\* with that changelog, and an open issue created before the cutoff that
\* never changed status
FeedIssues(key) ==
    {[key |-> key, created |-> <<30>>, resolutiondate |-> <<>>,
      status |-> "Blocked", histories |-> Histories],
     [key |-> key, created |-> <<30>>, resolutiondate |-> <<45>>,
      status |-> "Blocked", histories |-> Histories],
     [key |-> key, created |-> <<20>>, resolutiondate |-> <<>>,
      status |-> "To Do", histories |-> <<>>]}

\* the transitions _process_issue stored at an earlier run
StoredTransitions ==
    <<[timestamp |-> <<32>>, from_status |-> "To Do", to_status |-> "In Progress"],
      [timestamp |-> <<40>>, from_status |-> "In Progress", to_status |-> "Blocked"]>>

\* what the cache file holds for a key: an entry of the old format (no
\* status_transitions), an open and a resolved entry with transitions, the
\* latter created exactly at the cutoff, and a resolved entry created before
\* the cutoff; phase_durations as an earlier run under another mapping left
\* them
CachedEntries(key) ==
    {[key |-> key, project |-> "PROJ-A", created |-> <<30>>, resolved |-> <<>>,
      phase_durations |-> ("dev" :> 72) @@ ("qa" :> 48),
      current_status |-> "In Review", status_transitions |-> <<>>],
     [key |-> key, project |-> "PROJ-A", created |-> <<30>>, resolved |-> <<>>,
      phase_durations |-> ("backlog" :> 2) @@ ("dev" :> 8) @@ ("review" :> 3),
      current_status |-> "In Review", status_transitions |-> StoredTransitions],
     [key |-> key, project |-> "PROJ-A", created |-> <<26>>, resolved |-> <<45>>,
      phase_durations |-> ("backlog" :> 6) @@ ("dev" :> 8) @@ ("review" :> 5),
      current_status |-> "In Review", status_transitions |-> StoredTransitions],
     [key |-> key, project |-> "PROJ-A", created |-> <<20>>, resolved |-> <<45>>,
      phase_durations |-> ("backlog" :> 12) @@ ("dev" :> 8) @@ ("review" :> 5),
      current_status |-> "In Review", status_transitions |-> StoredTransitions]}

RECURSIVE StatusItems(_)
\* the (entry, item) pairs of a changelog whose item is a status change, in
\* the order of the two nested loops
StatusItems(entries) ==
    IF entries = <<>> THEN <<>>
    ELSE LET entry == Head(entries)
             found == Filter(entry.items, LAMBDA item : item.field = "status")
         IN  [i \in 1..Len(found) |-> [created |-> entry.created, item |-> found[i]]]
             \o StatusItems(Tail(entries))

\* parse_changelog(changelog_entries, status_lookup, issue_created, now)
ParseChangelog(changelog_entries, lookup, created, now_) ==
    LET found == StatusItems(changelog_entries)
        changes == [i \in 1..Len(found) |->
                       <<ParseJiraDatetime(found[i].created),
                         found[i].item.fromString, found[i].item.toString>>]
    IN  ComputePhaseDurations(changes, lookup, created, now_, NoCollector).durations

\* _process_issue(issue, project_key, status_lookup, now)
ProcessIssue(issue, project, lookup, now_) ==
    LET created == ParseJiraDatetime(issue.created)
        resolved == IF issue.resolutiondate # <<>>
                    THEN ParseJiraDatetime(issue.resolutiondate)
                    ELSE NoTime
        found == StatusItems(issue.histories)
    IN  [key                |-> issue.key,
         project            |-> project,
         created            |-> created,
         resolved           |-> resolved,
         phase_durations    |-> ParseChangelog(issue.histories, lookup, created, now_),
         current_status     |-> issue.status,
         status_transitions |->
             [i \in 1..Len(found) |->
                 [timestamp   |-> found[i].created,
                  from_status |-> found[i].item.fromString,
                  to_status   |-> found[i].item.toString]]]

\* collect_jira(config, since_hours): the issues the search returns - in a
\* full collection those created inside the lookback window - each through
\* _process_issue under the project's lookup
CollectJira(cfg, feed, incremental, now_) ==
    LET lookup == BuildStatusLookup(cfg.status_mapping, "PROJ-A").value
        found  == IF incremental THEN feed
                  ELSE Filter(feed, LAMBDA issue :
                           ParseJiraDatetime(issue.created)
                               >= Cutoff(now_, cfg.lookback_days))
    IN  [i \in 1..Len(found) |-> ProcessIssue(found[i], "PROJ-A", lookup, now_)]

\* _serialize_issue(issue)
SerializeIssue(issue) ==
    [key                |-> issue.key,
     project            |-> issue.project,
     created            |-> Isoformat(issue.created),
     resolved           |-> IsoformatOrNone(issue.resolved),
     phase_durations    |-> issue.phase_durations,
     current_status     |-> issue.current_status,
     status_transitions |-> issue.status_transitions]

RECURSIVE MergeUpdatedKeepCached(_, _)
\* a bug MergeUpdated could have: a key the cache holds keeps its old entry
MergeUpdatedKeepCached(cache_, issues) ==
    IF issues = <<>> THEN cache_
    ELSE LET merged == MergeUpdatedKeepCached(cache_, SubSeq(issues, 1, Len(issues) - 1))
             issue == issues[Len(issues)]
         IN  IF issue.key \in DOMAIN merged THEN merged
             ELSE DictSet(merged, issue.key, SerializeIssue(issue))

RECURSIVE MergeUpdated(_, _)
\* for issue in updated_issues: cache[issue.key] = _serialize_issue(issue)
MergeUpdated(cache_, issues) ==
    IF issues = <<>> THEN cache_
    ELSE DictSet(MergeUpdated(cache_, SubSeq(issues, 1, Len(issues) - 1)),
                 issues[Len(issues)].key, SerializeIssue(issues[Len(issues)]))

\* the dict comprehension that drops the entries created before the cutoff
Evict(cache_, cutoff) ==
    [k \in {x \in DOMAIN cache_ : FromIsoformat(cache_[x].created) >= cutoff}
        |-> cache_[k]]

\* a bug RemapEntry could have: every entry is recomputed, with or without
\* transitions
RemapEntryAlways(data, cfg, now_) ==
    LET lookup == RemapLookup(cfg.status_mapping, data.project)
        status_changes_ ==
            [i \in 1..Len(data.status_transitions) |->
                <<ParseJiraDatetime(data.status_transitions[i].timestamp),
                  data.status_transitions[i].from_status,
                  data.status_transitions[i].to_status>>]
        created == FromIsoformat(data.created)
        resolved == FromIsoformatOrNone(data.resolved)
        res == ComputePhaseDurations(status_changes_, lookup, created,
                                     IF resolved # NoTime THEN resolved ELSE now_,
                                     NewCollector)
    IN  [data EXCEPT !.phase_durations = StorePhaseDurations(@, res.durations)]

\* one pass of the remap loop: an entry without transitions is left alone,
\* any other gets phase_durations recomputed up to `resolved or now`
RemapEntry(data, cfg, now_) ==
    IF data.status_transitions = <<>> THEN data
    ELSE LET lookup == RemapLookup(cfg.status_mapping, data.project)
             status_changes_ ==
                 [i \in 1..Len(data.status_transitions) |->
                     <<ParseJiraDatetime(data.status_transitions[i].timestamp),
                       data.status_transitions[i].from_status,
                       data.status_transitions[i].to_status>>]
             created == FromIsoformat(data.created)
             resolved == FromIsoformatOrNone(data.resolved)
             res == ComputePhaseDurations(status_changes_, lookup, created,
                                          IF resolved # NoTime THEN resolved ELSE now_,
                                          NewCollector)
         IN  [data EXCEPT !.phase_durations = StorePhaseDurations(@, res.durations)]

\* the cache files and the search results of a run: per key at most one
\* entry, at most one issue
CacheFiles ==
    UNION {{f \in [keys -> UNION {CachedEntries(k) : k \in keys}] :
               \A k \in keys : f[k].key = k} : keys \in SUBSET CacheKeys}

KeysInOrder(keys) ==
    Filter(SubSeq(IssueKeys["PROJ-A"], 1, MaxCached), LAMBDA k : k \in keys)

Feeds ==
    UNION {{[i \in 1..Cardinality(keys) |-> f[KeysInOrder(keys)[i]]] :
               f \in {g \in [keys -> UNION {FeedIssues(k) : k \in keys}] :
                         \A k \in keys : g[k].key = k}} :
           keys \in SUBSET CacheKeys}

InitMain ==
    /\ main_config \in
          [status_mapping : ConfigEdits(BaseConfig, RemapLookup(BaseConfig, "PROJ-A")),
           lookback_days  : {LookbackDays}]
    /\ force_jira \in BOOLEAN
    /\ cache_file \in CacheFiles
    /\ jira_feed \in Feeds
    /\ run_now = RunNow
    /\ updated_issues = <<>>
    /\ cache = EmptyDict
    /\ remapped = 0
    /\ saved_cache = [written |-> FALSE, entries |-> EmptyDict]
    /\ main_pc = "start"
    /\ CallIdle
    /\ JenkinsIdle
    /\ PhaseIdle
    /\ LookupIdle
    /\ StatsIdle
    /\ RulesIdle

\* cache = {} if force_jira else load_issues_cache()
LoadedCache == IF force_jira THEN EmptyDict ELSE cache_file

\* the incremental branch: collect what was updated, overwrite the cached
\* versions, drop the entries created before the cutoff
CollectIncremental ==
    /\ main_pc = "start"
    /\ LoadedCache # EmptyDict
    /\ LET updated == CollectJira(main_config, jira_feed, TRUE, run_now)
       IN  /\ updated_issues' = updated
           /\ cache' = Evict(MergeUpdated(LoadedCache, updated),
                             Cutoff(run_now, main_config.lookback_days))
    /\ main_pc' = "collected"
    /\ UNCHANGED <<main_config, force_jira, cache_file, jira_feed, run_now,
                   remapped, saved_cache>>
    /\ UNCHANGED <<call_vars, jenkins_vars>>
    /\ UNCHANGED <<phase_vars, lookup_vars, stats_vars, rules_vars>>

\* the full branch: no cache, or a forced refresh
CollectFull ==
    /\ main_pc = "start"
    /\ LoadedCache = EmptyDict
    /\ LET all_issues == CollectJira(main_config, jira_feed, FALSE, run_now)
       IN  /\ updated_issues' = all_issues
           /\ cache' = MergeUpdated(EmptyDict, all_issues)
    /\ main_pc' = "collected"
    /\ UNCHANGED <<main_config, force_jira, cache_file, jira_feed, run_now,
                   remapped, saved_cache>>
    /\ UNCHANGED <<call_vars, jenkins_vars>>
    /\ UNCHANGED <<phase_vars, lookup_vars, stats_vars, rules_vars>>

\* the remap loop over cache.values()
RemapCache ==
    /\ main_pc = "collected"
    /\ cache' = [k \in DOMAIN cache |-> RemapEntry(cache[k], main_config, run_now)]
    /\ remapped' = Cardinality({k \in DOMAIN cache :
                                   cache[k].status_transitions # <<>>})
    /\ main_pc' = "remapped"
    /\ UNCHANGED <<main_config, force_jira, cache_file, jira_feed, run_now,
                   updated_issues, saved_cache>>
    /\ UNCHANGED <<call_vars, jenkins_vars>>
    /\ UNCHANGED <<phase_vars, lookup_vars, stats_vars, rules_vars>>

\* save_issues_cache(cache)
SaveCache ==
    /\ main_pc = "remapped"
    /\ saved_cache' = [written |-> TRUE, entries |-> cache]
    /\ main_pc' = "saved"
    /\ UNCHANGED <<main_config, force_jira, cache_file, jira_feed, run_now,
                   updated_issues, cache, remapped>>
    /\ UNCHANGED <<call_vars, jenkins_vars>>
    /\ UNCHANGED <<phase_vars, lookup_vars, stats_vars, rules_vars>>

NextMain == CollectIncremental \/ CollectFull \/ RemapCache \/ SaveCache

SpecMain == InitMain /\ [][NextMain]_vars

\* the keys collect_jira returned in this run, and the serialized record of one
FreshKeys == {updated_issues[i].key : i \in 1..Len(updated_issues)}

FreshRecord(k) ==
    SerializeIssue(updated_issues[CHOOSE i \in 1..Len(updated_issues) :
                                      updated_issues[i].key = k])

\* the entry of key k as the remap loop finds it
EntryBeforeRemap(k) ==
    IF k \in FreshKeys THEN FreshRecord(k) ELSE cache_file[k]

RemapDone == main_pc \in {"remapped", "saved"}

\* C26: in main's remap step an entry without status_transitions keeps its
\* phase_durations (and every other field) and is not counted as remapped,
\* whatever the status mapping of the run; remapped counts exactly the
\* entries with at least one stored transition
C26_OldFormatEntriesKept ==
    RemapDone =>
        /\ \A k \in DOMAIN cache :
              EntryBeforeRemap(k).status_transitions = <<>>
                  => cache[k] = EntryBeforeRemap(k)
        /\ remapped = Cardinality({k \in DOMAIN cache :
                          EntryBeforeRemap(k).status_transitions # <<>>})

\* under a mapping that now knows Blocked, an old-format entry keeps its
\* dev 72 / qa 48 while the entry next to it is rewritten and counted
C26_Witness ==
    /\ RemapDone
    /\ main_config.status_mapping # BaseConfig
    /\ remapped = 1
    /\ \E k, r \in DOMAIN cache :
          /\ k \notin FreshKeys
          /\ cache_file[k].status_transitions = <<>>
          /\ cache[k].phase_durations = ("dev" :> 72) @@ ("qa" :> 48)
          /\ cache[r].phase_durations # EntryBeforeRemap(r).phase_durations

\* C27: phase durations are a projection of the stored events: for every
\* collected issue that stays in the cache, what _process_issue computed at
\* collection equals what the remap step of the same run, under the same
\* lookup and the same instant, leaves in the cache, resolved or not
C27_ProjectionOfStoredEvents ==
    RemapDone =>
        \A i \in 1..Len(updated_issues) :
            updated_issues[i].key \in DOMAIN cache
                => cache[updated_issues[i].key].phase_durations
                       = updated_issues[i].phase_durations

\* the same for the issues that are not resolved
ProjectionOfUnresolvedIssues ==
    RemapDone =>
        \A i \in 1..Len(updated_issues) :
            (updated_issues[i].key \in DOMAIN cache
               /\ updated_issues[i].resolved = NoTime)
                => cache[updated_issues[i].key].phase_durations
                       = updated_issues[i].phase_durations

\* an issue resolved at 45 and collected at 50: 10 h of Blocked at
\* collection, 5 h after the remap
ResolvedIssueRemappedShorter ==
    /\ RemapDone
    /\ main_config.status_mapping = BaseConfig
    /\ \E i \in 1..Len(updated_issues) :
          /\ updated_issues[i].resolved = 45
          /\ updated_issues[i].phase_durations
                 = ("backlog" :> 2) @@ ("dev" :> 8) @@ ("unmapped" :> 10)
          /\ cache[updated_issues[i].key].phase_durations
                 = ("backlog" :> 2) @@ ("dev" :> 8) @@ ("unmapped" :> 5)

\* an incremental run: a cache was found and no refresh was forced
IncrementalRun == ~force_jira /\ cache_file # EmptyDict

SavedIncremental == main_pc = "saved" /\ IncrementalRun /\ saved_cache.written

\* the keys merged whose entry is created at or after the cutoff
KeptKeys ==
    {k \in (DOMAIN cache_file) \cup FreshKeys :
        FromIsoformat(EntryBeforeRemap(k).created)
            >= Cutoff(run_now, main_config.lookback_days)}

\* C30 as stated: after an incremental run the saved cache holds for each
\* key the freshly collected record if the collection returned the issue,
\* else the previously cached record; no entry is created before
\* now - lookback_days; no two entries share a key
C30_SavedCacheMergesFresh ==
    SavedIncremental =>
        \A k \in DOMAIN saved_cache.entries :
            /\ saved_cache.entries[k] = EntryBeforeRemap(k)
            /\ FromIsoformat(saved_cache.entries[k].created)
                   >= Cutoff(run_now, main_config.lookback_days)
            /\ saved_cache.entries[k].key = k

\* phase_durations as the remap step recomputes them for an entry
RecomputedDurations(data) ==
    ComputePhaseDurations(
        [i \in 1..Len(data.status_transitions) |->
            <<ParseJiraDatetime(data.status_transitions[i].timestamp),
              data.status_transitions[i].from_status,
              data.status_transitions[i].to_status>>],
        RemapLookup(main_config.status_mapping, data.project),
        FromIsoformat(data.created),
        IF data.resolved # <<>> THEN FromIsoformat(data.resolved) ELSE run_now,
        NewCollector).durations

\* C30 amended: the saved cache has an entry for exactly the merged keys
\* created at or after the cutoff; each is the fresh record if collected,
\* else the cached one, in every field but phase_durations, which is the
\* record's own for an entry without transitions and recomputed from the
\* stored transitions otherwise; each entry is filed under its own key
C30_SavedCacheMergesFreshUpToRemap ==
    SavedIncremental =>
        /\ DOMAIN saved_cache.entries = KeptKeys
        /\ \A k \in DOMAIN saved_cache.entries :
              LET before == EntryBeforeRemap(k)
                  saved  == saved_cache.entries[k]
              IN  /\ [saved EXCEPT !.phase_durations = before.phase_durations]
                         = before
                  /\ saved.phase_durations =
                         IF before.status_transitions = <<>>
                         THEN before.phase_durations
                         ELSE RecomputedDurations(before)
                  /\ FromIsoformat(saved.created)
                         >= Cutoff(run_now, main_config.lookback_days)
                  /\ saved.key = k

\* a collected issue replaces its cached entry, and a cached entry created
\* before the cutoff is gone
C30_Witness ==
    /\ SavedIncremental
    /\ \E k \in FreshKeys \cap DOMAIN cache_file :
          /\ k \in DOMAIN saved_cache.entries
          /\ cache_file[k].current_status = "In Review"
          /\ saved_cache.entries[k].current_status = "Blocked"
    /\ \E k \in (DOMAIN cache_file) \ FreshKeys :
          /\ cache_file[k].created = <<20>>
          /\ k \notin DOMAIN saved_cache.entries

=============================================================================
